---------------------------- MODULE Spec2Model ----------------------------
(***************************************************************************)
(* A model of fsck.ubifs (mtd-utils, ubifs-utils/fsck.ubifs): the file     *)
(* graph builder, the file validator and reconciler, the space accounting  *)
(* pass, the problem policy engine and the run's control flow.             *)
(*                                                                         *)
(* The module holds several specifications over one set of variables.      *)
(* Each specification drives one group of variables and pins the others.   *)
(***************************************************************************)
EXTENDS Integers, Naturals, Sequences, FiniteSets, TLC

VARIABLES
    \* ---- file graph builder (extract_files.c, rebuild_fs.c) ----
    scanned,        \* nodes handed to the builder so far, in arrival order
    scanned_files,  \* FSCK(c)->scanned_files : inum -> scanned_file
    valid_inos,     \* si->valid_inos         : inum -> scanned_ino_node
    del_inos,       \* si->del_inos           : inum -> scanned_ino_node
    valid_dents,    \* si->valid_dents        : key, name -> scanned_dent_node
    del_dents,      \* si->del_dents          : key, name -> scanned_dent_node
    \* ---- one run of main() (fsck.ubifs.c, problem.c, load_fs.c) ----
    run,            \* 1 for the first invocation, 2 for the one after it
    prev,           \* start mode, reported problems, exit code of run 1
    start_mode,     \* the mode get_options() selected
    mode,           \* FSCK(c)->mode
    pc,             \* the step main() is at
    exit_code,      \* the bits or-ed into exit_code so far
    try_rebuild,    \* FSCK(c)->try_rebuild
    lpt_status,     \* FSCK(c)->lpt_status != 0
    disconnected,   \* !list_empty(&FSCK(c)->disconnected_files)
    media,          \* the faults present on the device
    done,           \* faults this run has already dealt with
    dirty,          \* faults repaired in memory, not yet committed
    seen,           \* problem types passed to fix_problem() in this run
    fixed,          \* problem types fix_problem() answered true for
    skipped,        \* problem types answered false without aborting
    aborted_on,     \* problem types on which fatal_error() ended the run
    effects,        \* what this run did: index removal, inode patch, ...
    \* ---- file validation and reconciliation (extract_files.c) ----
    scanned_tree,        \* FSCK(c)->scanned_files as the passes work on it
    disconnected_files,  \* FSCK(c)->disconnected_files
    flash_nlink,         \* inum -> nlink of the inode node on the device
    flash_attrs,         \* inum -> size and xattr sums of that inode node
    \* ---- the reachability walk, step by step (extract_files.c) ----
    walk_file,           \* inum of the file file_is_reachable() is called on
    walk_node,           \* position of its loop in the file's dent_nodes
    walk_dent,           \* dent_node of the running dentry_is_reachable()
    walk_path,           \* path_list
    walk_unreachable,    \* the list of handle_dentry_tree(), head first
    \* ---- space accounting (check_space.c) ----
    main_area,           \* the main area's LEBs as a scan finds them
    lpt,                 \* the LEB properties table, one entry per LEB
    lst,                 \* c->lst, the space statistics
    calc_lst,            \* the statistics check_and_correct_lpt() sums up
    \* ---- the last steps of the rebuild (rebuild_fs.c, check_space.c) ----
    err,                 \* err of ubifs_rebuild_filesystem()
    idx_cnt,             \* the leaf entries handed to build_tnc()
    gc_lnum,             \* c->gc_lnum, 0 while no LEB is taken
    tnc,                 \* the index nodes build_tnc() wrote, and c->zroot
    taken,               \* what get_free_leb() returned to the rebuild
    \* ---- the disconnected files (handle_disconnected.c) ----
    lost_and_found,      \* FSCK(c)->lost_and_found, 0 while there is none
    disc_ret,            \* ret of handle_disonnected_files()
    handled,             \* what became of each disconnected file, in order
    \* ---- the traversal of the index (check_files.c) ----
    invalid_nodes,       \* iter->invalid_nodes, head first
    \* ---- the commit and the device (commit.c, io.c) ----
    cmt_state,           \* c->cmt_state
    ro_error,            \* c->ro_error
    dev,                 \* the device: LEB -> what is mapped or written there
    dev_calls,           \* the calls made on c->dev_fd so far
    lib_op,              \* the library function that returned last
    lib_ret,             \* what it returned
    \* ---- a write-buffer (io.c) ----
    wbuf                 \* lnum, offs, size, avail, used of the write-buffer

buildVars == <<scanned, scanned_files, valid_inos, del_inos, valid_dents,
               del_dents>>

runVars == <<run, prev, start_mode, mode, pc, exit_code, try_rebuild,
             lpt_status, disconnected, media, done, dirty, seen, fixed,
             skipped, aborted_on, effects>>

treeVars == <<scanned_tree, disconnected_files, flash_nlink, flash_attrs>>

spaceVars == <<main_area, lpt, lst, calc_lst>>

walkVars == <<walk_file, walk_node, walk_dent, walk_path, walk_unreachable>>

stepVars == <<err, idx_cnt, gc_lnum, tnc, taken>>

discVars == <<lost_and_found, disc_ret, handled>>

leafVars == <<invalid_nodes>>

cmtVars == <<cmt_state, ro_error, dev, dev_calls, lib_op, lib_ret>>

wbufVars == <<wbuf>>

ioVars == <<cmtVars, wbufVars>>

libVars == <<discVars, leafVars, ioVars>>

vars == <<buildVars, runVars, treeVars, spaceVars, walkVars, stepVars,
          libVars>>

othersThanBuild ==
    <<runVars, treeVars, spaceVars, walkVars, stepVars, libVars>>
othersThanRun ==
    <<buildVars, treeVars, spaceVars, walkVars, stepVars, libVars>>

(***************************************************************************)
(* Bounds.                                                                 *)
(***************************************************************************)
MaxSqnum == 3
MaxScanned == 2
MaxFaults == 2
MaxRaw == 5

(***************************************************************************)
(* Key types (ubifs-media.h numbering is not needed, only the names).      *)
(***************************************************************************)
UBIFS_INO_KEY == "ino"
UBIFS_DATA_KEY == "data"
UBIFS_TRUN_KEY == "trun"
UBIFS_DENT_KEY == "dent"
UBIFS_XENT_KEY == "xent"
UBIFS_ITYPE_REG == "ITYPE_REG"
UBIFS_ITYPE_DIR == "ITYPE_DIR"
UBIFS_BLOCK_SIZE == 4096

UBIFS_ROOT_INO == 1
S_IFDIR == "DIR"
S_IFREG == "REG"

BuildInums == {1, 2}
BuildBlocks == {0, 1}
BuildSizes == {0, 1}
Sqnums == 1..MaxSqnum

\* struct scanned_node header (exist, sqnum) followed by the per-type payload.
NoNode == [exist |-> FALSE, type |-> "none", inum |-> 0, block |-> 0,
           sqnum |-> 0, size |-> 0, nlink |-> 0, mode |-> "none",
           is_xattr |-> FALSE, xcnt |-> 0, xsz |-> 0, xnms |-> 0]

ScannedInoNodes ==
    [exist : {TRUE}, type : {UBIFS_INO_KEY}, inum : BuildInums, block : {0},
     sqnum : Sqnums, size : {0}, nlink : {0, 1}, mode : {S_IFREG},
     is_xattr : {FALSE}]

ScannedTrunNodes ==
    [exist : {TRUE}, type : {UBIFS_TRUN_KEY}, inum : BuildInums, block : {0},
     sqnum : Sqnums, size : BuildSizes, nlink : {0}, mode : {"none"},
     is_xattr : {FALSE}]

ScannedDataNodes ==
    [exist : {TRUE}, type : {UBIFS_DATA_KEY}, inum : BuildInums,
     block : BuildBlocks, sqnum : Sqnums, size : BuildSizes, nlink : {0},
     mode : {"none"}, is_xattr : {FALSE}]

ScannedNodes == ScannedInoNodes \cup ScannedTrunNodes \cup ScannedDataNodes

\* A scanned_file as insert_or_update_file() allocates it (kzalloc).
EmptyFile ==
    [inum |-> 0, ino |-> NoNode, trun |-> NoNode, data |-> <<>>,
     dent_nodes |-> <<>>, calc_nlink |-> 0, calc_size |-> 0,
     calc_xcnt |-> 0, calc_xsz |-> 0, calc_xnms |-> 0, xattr_files |-> {}]

\* insert_file_dentry(): the entry goes behind every entry whose sequence
\* number is not larger than its own.
RECURSIVE insert_file_dentry(_, _)
insert_file_dentry(dents, n_dent) ==
    IF dents = <<>> THEN <<n_dent>>
    ELSE IF n_dent.sqnum < Head(dents).sqnum THEN <<n_dent>> \o dents
    ELSE <<Head(dents)>> \o insert_file_dentry(Tail(dents), n_dent)

(***************************************************************************)
(* update_file_data: a data node with the same block key replaces the      *)
(* stored one only when the stored sqnum is smaller.                       *)
(***************************************************************************)
update_file_data(file, n_dn) ==
    IF n_dn.block \in DOMAIN file.data
    THEN LET o_dn == file.data[n_dn.block] IN
         IF o_dn.sqnum < n_dn.sqnum
         THEN [file EXCEPT !.data[n_dn.block] =
                   [o_dn EXCEPT !.sqnum = n_dn.sqnum, !.size = n_dn.size]]
         ELSE file
    ELSE [file EXCEPT !.data = (n_dn.block :> n_dn) @@ file.data]

(***************************************************************************)
(* update_file: inode and truncation records are kept only when the stored *)
(* record exists and has a larger sqnum; otherwise the new one is copied.  *)
(***************************************************************************)
update_file_last_wins(file, sn) ==
    CASE sn.type = UBIFS_INO_KEY -> [file EXCEPT !.ino = sn]
      [] sn.type = UBIFS_TRUN_KEY -> [file EXCEPT !.trun = sn]
      [] sn.type = UBIFS_DATA_KEY -> update_file_data(file, sn)
      [] sn.type \in {UBIFS_DENT_KEY, UBIFS_XENT_KEY} ->
            [file EXCEPT !.dent_nodes = insert_file_dentry(@, sn)]

update_file(file, sn) ==
    CASE sn.type = UBIFS_INO_KEY ->
            IF file.ino.exist /\ file.ino.sqnum > sn.sqnum
            THEN file
            ELSE [file EXCEPT !.ino = sn]
      [] sn.type = UBIFS_TRUN_KEY ->
            IF file.trun.exist /\ file.trun.sqnum > sn.sqnum
            THEN file
            ELSE [file EXCEPT !.trun = sn]
      [] sn.type = UBIFS_DATA_KEY -> update_file_data(file, sn)
      [] sn.type \in {UBIFS_DENT_KEY, UBIFS_XENT_KEY} ->
            [file EXCEPT !.dent_nodes = insert_file_dentry(@, sn)]

\* sn.inum is the inum the caller passes: the key's for inode, data and
\* truncation nodes, the target's for a directory entry.
insert_or_update_file(file_tree, sn) ==
    IF sn.inum \in DOMAIN file_tree
    THEN [file_tree EXCEPT ![sn.inum] = update_file(file_tree[sn.inum], sn)]
    ELSE (sn.inum :> update_file([EmptyFile EXCEPT !.inum = sn.inum], sn))
         @@ file_tree

(***************************************************************************)
(* insert_or_update_ino_node: the rebuild scan's trees of inode nodes.     *)
(***************************************************************************)
insert_or_update_ino_node(new_ino, tree) ==
    IF new_ino.inum \in DOMAIN tree
    THEN IF tree[new_ino.inum].sqnum < new_ino.sqnum
         THEN [tree EXCEPT ![new_ino.inum] = new_ino]
         ELSE tree
    ELSE (new_ino.inum :> new_ino) @@ tree

\* What keys_cmp() and namecmp() compare of a directory entry: the inum and
\* type of its key, and its name.
DentKey(d) == <<d.key_inum, d.type, d.name>>

\* insert_or_update_dent_node: the rebuild scan's trees of directory
\* entries.
insert_or_update_dent_node(new_dent, tree) ==
    IF DentKey(new_dent) \in DOMAIN tree
    THEN IF tree[DentKey(new_dent)].sqnum < new_dent.sqnum
         THEN [tree EXCEPT ![DentKey(new_dent)] = new_dent]
         ELSE tree
    ELSE (DentKey(new_dent) :> new_dent) @@ tree

\* struct scanned_info with FSCK(c)->scanned_files, as init_rebuild_info()
\* leaves them.
EmptyScan ==
    [valid_inos |-> <<>>, del_inos |-> <<>>, valid_dents |-> <<>>,
     del_dents |-> <<>>, scanned_files |-> <<>>]

BuildStart ==
    /\ scanned = <<>>
    /\ scanned_files = EmptyScan.scanned_files
    /\ valid_inos = EmptyScan.valid_inos
    /\ del_inos = EmptyScan.del_inos
    /\ valid_dents = EmptyScan.valid_dents
    /\ del_dents = EmptyScan.del_dents

\* check_files.c construct_file(): every node found in the index goes to
\* insert_or_update_file().
construct_file(sn) ==
    /\ Len(scanned) < MaxScanned
    /\ scanned' = Append(scanned, [store |-> "scanned_files", node |-> sn])
    /\ scanned_files' = insert_or_update_file(scanned_files, sn)
    /\ UNCHANGED <<valid_inos, del_inos, valid_dents, del_dents>>
    /\ UNCHANGED othersThanBuild

\* The tree process_scanned_node() picks for a node.
StoreOf(sn) ==
    IF sn.type = UBIFS_INO_KEY
    THEN IF sn.nlink # 0 THEN "valid_inos" ELSE "del_inos"
    ELSE IF sn.type \in {UBIFS_DENT_KEY, UBIFS_XENT_KEY}
    THEN IF sn.inum # 0 THEN "valid_dents" ELSE "del_dents"
    ELSE "scanned_files"

\* The body of rebuild_fs.c process_scanned_node(): inode nodes and
\* directory entries go to the valid or the deleted tree of their kind,
\* data and truncation nodes go to insert_or_update_file().
store_scanned_node(sn) ==
    /\ scanned' = Append(scanned, [store |-> StoreOf(sn), node |-> sn])
    /\ IF sn.type = UBIFS_INO_KEY
       THEN /\ IF sn.nlink # 0
               THEN /\ valid_inos' = insert_or_update_ino_node(sn, valid_inos)
                    /\ UNCHANGED del_inos
               ELSE /\ del_inos' = insert_or_update_ino_node(sn, del_inos)
                    /\ UNCHANGED valid_inos
            /\ UNCHANGED <<scanned_files, valid_dents, del_dents>>
       ELSE IF sn.type \in {UBIFS_DENT_KEY, UBIFS_XENT_KEY}
       THEN /\ IF sn.inum # 0
               THEN /\ valid_dents' =
                            insert_or_update_dent_node(sn, valid_dents)
                    /\ UNCHANGED del_dents
               ELSE /\ del_dents' = insert_or_update_dent_node(sn, del_dents)
                    /\ UNCHANGED valid_dents
            /\ UNCHANGED <<scanned_files, valid_inos, del_inos>>
       ELSE /\ scanned_files' = insert_or_update_file(scanned_files, sn)
            /\ UNCHANGED <<valid_inos, del_inos, valid_dents, del_dents>>

process_scanned_node(sn) ==
    /\ Len(scanned) < MaxScanned
    /\ store_scanned_node(sn)
    /\ UNCHANGED othersThanBuild

BuildNext ==
    \/ \E sn \in ScannedNodes : construct_file(sn)
    \/ \E sn \in ScannedNodes : process_scanned_node(sn)

(***************************************************************************)
(* The run: main(), ubifs_load_filesystem(), do_fsck(), fix_problem().     *)
(***************************************************************************)
NORMAL_MODE == "NORMAL_MODE"
SAFE_MODE == "SAFE_MODE"
DANGER_MODE0 == "DANGER_MODE0"
DANGER_MODE1 == "DANGER_MODE1"
REBUILD_MODE == "REBUILD_MODE"
CHECK_MODE == "CHECK_MODE"

\* The modes get_options() can select.
StartModes == {NORMAL_MODE, SAFE_MODE, DANGER_MODE0, DANGER_MODE1, CHECK_MODE}

\* Exit code bits.
FSCK_OK == 0
FSCK_NONDESTRUCT == 1
FSCK_UNCORRECTED == 4
FSCK_ERROR == 8
FSCK_CANCELED == 32

PROBLEM_FIXABLE == "FIXABLE"
PROBLEM_MUST_FIX == "MUST_FIX"
PROBLEM_DROP_DATA == "DROP_DATA"
PROBLEM_NEED_REBUILD == "NEED_REBUILD"

\* The problem types, in the order of the enum.
ProblemTypes ==
    << "SB_CORRUPTED", "MST_CORRUPTED", "LOG_CORRUPTED", "BUD_CORRUPTED",
       "TNC_CORRUPTED", "TNC_DATA_CORRUPTED", "ORPHAN_CORRUPTED",
       "INVALID_INO_NODE", "INVALID_DENT_NODE", "INVALID_DATA_NODE",
       "SCAN_CORRUPTED", "FILE_HAS_NO_INODE", "FILE_HAS_0_NLINK_INODE",
       "FILE_HAS_INCONSIST_TYPE", "FILE_HAS_TOO_MANY_DENT",
       "FILE_SHOULDNT_HAVE_DATA", "FILE_HAS_NO_DENT", "XATTR_HAS_NO_HOST",
       "XATTR_HAS_WRONG_HOST", "FILE_HAS_NO_ENCRYPT", "FILE_IS_DISCONNECTED",
       "FILE_ROOT_HAS_DENT", "DENTRY_IS_UNREACHABLE", "FILE_IS_INCONSISTENT",
       "EMPTY_TNC", "LPT_CORRUPTED", "NNODE_INCORRECT", "PNODE_INCORRECT",
       "LP_INCORRECT", "SPACE_STAT_INCORRECT", "LTAB_INCORRECT",
       "INCORRECT_IDX_SZ", "ROOT_DIR_NOT_FOUND",
       "DISCONNECTED_FILE_CANNOT_BE_RECOVERED" >>

Problems == {ProblemTypes[i] : i \in 1..Len(ProblemTypes)}

\* The enum value of a problem type, counted from 1.
ProblemIndexTable ==
    [p \in Problems |-> CHOOSE i \in 1..Len(ProblemTypes) : ProblemTypes[i] = p]

ProblemIndex(p) == ProblemIndexTable[p]

FlagsRebuild ==
    {PROBLEM_FIXABLE, PROBLEM_MUST_FIX, PROBLEM_DROP_DATA, PROBLEM_NEED_REBUILD}
FlagsDrop == {PROBLEM_FIXABLE, PROBLEM_MUST_FIX, PROBLEM_DROP_DATA}
FlagsMust == {PROBLEM_FIXABLE, PROBLEM_MUST_FIX}

\* problem_table[]: the flags of every problem type, in the enum's order.
problem_table ==
    << {},             \* SB_CORRUPTED
       FlagsRebuild,   \* MST_CORRUPTED
       FlagsRebuild,   \* LOG_CORRUPTED
       FlagsDrop,      \* BUD_CORRUPTED
       FlagsRebuild,   \* TNC_CORRUPTED
       FlagsDrop,      \* TNC_DATA_CORRUPTED
       FlagsDrop,      \* ORPHAN_CORRUPTED
       FlagsDrop,      \* INVALID_INO_NODE
       FlagsDrop,      \* INVALID_DENT_NODE
       FlagsDrop,      \* INVALID_DATA_NODE
       FlagsDrop,      \* SCAN_CORRUPTED
       FlagsDrop,      \* FILE_HAS_NO_INODE
       FlagsDrop,      \* FILE_HAS_0_NLINK_INODE
       FlagsDrop,      \* FILE_HAS_INCONSIST_TYPE
       FlagsDrop,      \* FILE_HAS_TOO_MANY_DENT
       FlagsDrop,      \* FILE_SHOULDNT_HAVE_DATA
       FlagsDrop,      \* FILE_HAS_NO_DENT
       FlagsDrop,      \* XATTR_HAS_NO_HOST
       FlagsDrop,      \* XATTR_HAS_WRONG_HOST
       FlagsDrop,      \* FILE_HAS_NO_ENCRYPT
       FlagsMust,      \* FILE_IS_DISCONNECTED
       FlagsDrop,      \* FILE_ROOT_HAS_DENT
       FlagsDrop,      \* DENTRY_IS_UNREACHABLE
       FlagsMust,      \* FILE_IS_INCONSISTENT
       FlagsRebuild,   \* EMPTY_TNC
       FlagsMust,      \* LPT_CORRUPTED
       FlagsMust,      \* NNODE_INCORRECT
       FlagsMust,      \* PNODE_INCORRECT
       FlagsMust,      \* LP_INCORRECT
       FlagsMust,      \* SPACE_STAT_INCORRECT
       FlagsMust,      \* LTAB_INCORRECT
       FlagsMust,      \* INCORRECT_IDX_SZ
       FlagsMust,      \* ROOT_DIR_NOT_FOUND
       {PROBLEM_FIXABLE, PROBLEM_DROP_DATA}
                       \* DISCONNECTED_FILE_CANNOT_BE_RECOVERED
    >>

ProblemFlags(p) == problem_table[ProblemIndex(p)]

(***************************************************************************)
(* fix_problem(): the answer, whether fatal_error() ends the run, and the  *)
(* bits or-ed into exit_code.  prompt_ans is what prompt() returns when the *)
(* user is asked (NORMAL_MODE only).                                       *)
(***************************************************************************)
fix_problem_check_fixes(m, p, prompt_ans) ==
    LET flags == ProblemFlags(p)
        def_y == ~ \/ (PROBLEM_DROP_DATA \in flags /\ m = SAFE_MODE)
                   \/ /\ PROBLEM_NEED_REBUILD \in flags
                      /\ m \in {SAFE_MODE, DANGER_MODE0}
        ans == IF m = NORMAL_MODE THEN prompt_ans ELSE def_y
    IN  IF PROBLEM_FIXABLE \notin flags
        THEN [ans |-> FALSE, fatal |-> TRUE, code |-> {FSCK_UNCORRECTED}]
        ELSE IF ~ans
        THEN [ans |-> FALSE, fatal |-> PROBLEM_MUST_FIX \in flags,
              code |-> {FSCK_UNCORRECTED}]
        ELSE [ans |-> TRUE, fatal |-> FALSE, code |-> {FSCK_NONDESTRUCT}]

fix_problem_never_fatal(m, p, prompt_ans) ==
    LET flags == ProblemFlags(p)
        def_y == ~ \/ m = CHECK_MODE
                   \/ (PROBLEM_DROP_DATA \in flags /\ m = SAFE_MODE)
                   \/ /\ PROBLEM_NEED_REBUILD \in flags
                      /\ m \in {SAFE_MODE, DANGER_MODE0}
        ans == IF m = NORMAL_MODE THEN prompt_ans ELSE def_y
    IN  IF PROBLEM_FIXABLE \notin flags
        THEN [ans |-> FALSE, fatal |-> TRUE, code |-> {FSCK_UNCORRECTED}]
        ELSE IF ~ans
        THEN [ans |-> FALSE, fatal |-> FALSE, code |-> {FSCK_UNCORRECTED}]
        ELSE [ans |-> TRUE, fatal |-> FALSE, code |-> {FSCK_NONDESTRUCT}]

fix_problem_safe_drops(m, p, prompt_ans) ==
    LET flags == ProblemFlags(p)
        def_y == ~ \/ m = CHECK_MODE
                   \/ /\ PROBLEM_NEED_REBUILD \in flags
                      /\ m \in {SAFE_MODE, DANGER_MODE0}
        ans == IF m = NORMAL_MODE THEN prompt_ans ELSE def_y
    IN  IF PROBLEM_FIXABLE \notin flags
        THEN [ans |-> FALSE, fatal |-> TRUE, code |-> {FSCK_UNCORRECTED}]
        ELSE IF ~ans
        THEN [ans |-> FALSE, fatal |-> PROBLEM_MUST_FIX \in flags,
              code |-> {FSCK_UNCORRECTED}]
        ELSE [ans |-> TRUE, fatal |-> FALSE, code |-> {FSCK_NONDESTRUCT}]

fix_problem_danger0_rebuilds(m, p, prompt_ans) ==
    LET flags == ProblemFlags(p)
        def_y == ~ \/ m = CHECK_MODE
                   \/ (PROBLEM_DROP_DATA \in flags /\ m = SAFE_MODE)
                   \/ (PROBLEM_NEED_REBUILD \in flags /\ m = SAFE_MODE)
        ans == IF m = NORMAL_MODE THEN prompt_ans ELSE def_y
    IN  IF PROBLEM_FIXABLE \notin flags
        THEN [ans |-> FALSE, fatal |-> TRUE, code |-> {FSCK_UNCORRECTED}]
        ELSE IF ~ans
        THEN [ans |-> FALSE, fatal |-> PROBLEM_MUST_FIX \in flags,
              code |-> {FSCK_UNCORRECTED}]
        ELSE [ans |-> TRUE, fatal |-> FALSE, code |-> {FSCK_NONDESTRUCT}]

fix_problem(m, p, prompt_ans) ==
    LET flags == ProblemFlags(p)
        def_y == ~ \/ m = CHECK_MODE
                   \/ (PROBLEM_DROP_DATA \in flags /\ m = SAFE_MODE)
                   \/ /\ PROBLEM_NEED_REBUILD \in flags
                      /\ m \in {SAFE_MODE, DANGER_MODE0}
        ans == IF m = NORMAL_MODE THEN prompt_ans ELSE def_y
    IN  IF PROBLEM_FIXABLE \notin flags
        THEN [ans |-> FALSE, fatal |-> TRUE, code |-> {FSCK_UNCORRECTED}]
        ELSE IF ~ans
        THEN [ans |-> FALSE, fatal |-> PROBLEM_MUST_FIX \in flags,
              code |-> {FSCK_UNCORRECTED}]
        ELSE [ans |-> TRUE, fatal |-> FALSE, code |-> {FSCK_NONDESTRUCT}]

(***************************************************************************)
(* The steps of main(): ubifs_load_filesystem() then do_fsck().            *)
(***************************************************************************)
Steps ==
    << "read_superblock", "read_master", "replay_journal", "mount_orphans",
       "traverse_tnc", "handle_invalid_files", "handle_dentry_tree",
       "calculate_file_info", "correct_file_info", "tnc_is_empty",
       "check_and_correct_space", "commit", "check_index_size",
       "check_and_create_root", "handle_disconnected_files", "final_commit" >>

StepNames == {Steps[i] : i \in 1..Len(Steps)}

StepIndexTable ==
    [s \in StepNames |-> CHOOSE i \in 1..Len(Steps) : Steps[i] = s]

StepIndex(s) == StepIndexTable[s]

\* The steps in which a problem type is reported.
SitesOf(p) ==
    CASE p = "SB_CORRUPTED" -> {"read_superblock"}
      [] p = "MST_CORRUPTED" -> {"read_master"}
      [] p \in {"LOG_CORRUPTED", "BUD_CORRUPTED"} -> {"replay_journal"}
      [] p = "TNC_CORRUPTED" ->
            {"replay_journal", "mount_orphans", "traverse_tnc"}
      [] p = "ORPHAN_CORRUPTED" -> {"mount_orphans"}
      [] p \in {"TNC_DATA_CORRUPTED", "INVALID_INO_NODE", "INVALID_DENT_NODE",
                "INVALID_DATA_NODE", "SCAN_CORRUPTED"} -> {"traverse_tnc"}
      [] p \in {"FILE_HAS_NO_INODE", "FILE_HAS_0_NLINK_INODE",
                "FILE_HAS_INCONSIST_TYPE", "FILE_HAS_TOO_MANY_DENT",
                "FILE_SHOULDNT_HAVE_DATA", "XATTR_HAS_NO_HOST",
                "XATTR_HAS_WRONG_HOST", "FILE_HAS_NO_ENCRYPT",
                "FILE_ROOT_HAS_DENT"} -> {"handle_invalid_files"}
      [] p \in {"FILE_HAS_NO_DENT", "FILE_IS_DISCONNECTED"} ->
            {"handle_invalid_files", "handle_dentry_tree"}
      [] p = "DENTRY_IS_UNREACHABLE" -> {"handle_dentry_tree"}
      [] p = "FILE_IS_INCONSISTENT" -> {"correct_file_info"}
      [] p = "EMPTY_TNC" -> {"tnc_is_empty"}
      [] p \in {"LPT_CORRUPTED", "NNODE_INCORRECT", "PNODE_INCORRECT",
                "LP_INCORRECT", "SPACE_STAT_INCORRECT", "LTAB_INCORRECT"} ->
            {"check_and_correct_space"}
      [] p = "INCORRECT_IDX_SZ" -> {"check_index_size"}
      [] p = "ROOT_DIR_NOT_FOUND" -> {"check_and_create_root"}
      [] p = "DISCONNECTED_FILE_CANNOT_BE_RECOVERED" ->
            {"handle_disconnected_files"}

\* A fault of the device: a problem type and the step that meets it.
Faults == UNION {{[type |-> p, site |-> s] : s \in SitesOf(p)} : p \in Problems}

RECURSIVE FaultSets(_)
FaultSets(n) ==
    IF n = 0 THEN {{}}
    ELSE LET S == FaultSets(n - 1)
         IN S \cup {s \cup {f} : s \in S, f \in Faults}

\* scan_check_leb() returns at once in CHECK_MODE, and so does
\* check_and_correct_space().
Detectable(f) ==
    /\ ~(mode = CHECK_MODE /\ f.type = "SCAN_CORRUPTED")
    /\ ~(mode = CHECK_MODE /\ f.site = "check_and_correct_space")

Pending(step) == {f \in media \ done : f.site = step /\ Detectable(f)}

FirstPending(step) ==
    CHOOSE f \in Pending(step) :
        \A g \in Pending(step) : ProblemIndex(f.type) <= ProblemIndex(g.type)

NoRebuildCallers == {}

\* The callers that set try_rebuild when fix_problem() answers true.
RebuildCallers == {"MST_CORRUPTED", "LOG_CORRUPTED", "TNC_CORRUPTED", "EMPTY_TNC"}

\* The problems whose repair removes entries from the index
\* (remove_invalid_nodes, delete_file, delete_node).
TncRemovers ==
    {"TNC_DATA_CORRUPTED", "INVALID_INO_NODE", "INVALID_DENT_NODE",
     "INVALID_DATA_NODE", "SCAN_CORRUPTED", "FILE_HAS_NO_INODE",
     "FILE_HAS_0_NLINK_INODE", "FILE_HAS_INCONSIST_TYPE",
     "FILE_HAS_TOO_MANY_DENT", "FILE_SHOULDNT_HAVE_DATA", "FILE_HAS_NO_DENT",
     "XATTR_HAS_NO_HOST", "XATTR_HAS_WRONG_HOST", "FILE_HAS_NO_ENCRYPT",
     "FILE_ROOT_HAS_DENT", "DENTRY_IS_UNREACHABLE",
     "DISCONNECTED_FILE_CANNOT_BE_RECOVERED"}

NoPrev == [mode |-> "none", seen |-> {}, exit_code |-> {}]

\* A run that has not been started: the value of the run's variables in the
\* specifications that drive another part of the program.
RunIdle ==
    /\ run = 0
    /\ prev = NoPrev
    /\ start_mode = "none"
    /\ mode = "none"
    /\ pc = "idle"
    /\ exit_code = {}
    /\ try_rebuild = FALSE
    /\ lpt_status = FALSE
    /\ disconnected = FALSE
    /\ media = {}
    /\ done = {}
    /\ dirty = {}
    /\ seen = {}
    /\ fixed = {}
    /\ skipped = {}
    /\ aborted_on = {}
    /\ effects = {}

\* init_fsck_info(): the mode of the command line, nothing done yet.
init_fsck_info(m) ==
    /\ start_mode = m
    /\ mode = m
    /\ pc = "read_superblock"
    /\ exit_code = {}
    /\ try_rebuild = FALSE
    /\ lpt_status = FALSE
    /\ disconnected = FALSE
    /\ done = {}
    /\ dirty = {}
    /\ seen = {}
    /\ fixed = {}
    /\ skipped = {}
    /\ aborted_on = {}
    /\ effects = {}

(***************************************************************************)
(* One call of fix_problem() at the current step, with what its caller     *)
(* does with the answer.                                                   *)
(***************************************************************************)
report_problem(prompt_ans) ==
    /\ pc \in StepNames
    /\ Pending(pc) # {}
    /\ LET f == FirstPending(pc)
           p == f.type
           r == fix_problem(mode, p, prompt_ans)
           \* rebuild_lpt() replaces the whole table
           resolved == IF p = "LPT_CORRUPTED" THEN Pending(pc) ELSE {f}
       IN /\ seen' = seen \cup {p}
          /\ exit_code' = exit_code \cup r.code
          /\ fixed' = IF r.ans THEN fixed \cup {p} ELSE fixed
          /\ skipped' = IF ~r.ans /\ ~r.fatal THEN skipped \cup {p} ELSE skipped
          /\ aborted_on' = IF r.fatal THEN aborted_on \cup {p} ELSE aborted_on
          /\ done' = done \cup (IF r.ans THEN resolved ELSE {f})
          /\ try_rebuild' = (try_rebuild \/ (r.ans /\ p \in RebuildCallers))
          /\ pc' = IF r.fatal THEN "exited"
                   ELSE IF p \in {"SB_CORRUPTED", "MST_CORRUPTED",
                                  "LOG_CORRUPTED", "TNC_CORRUPTED"}
                        THEN IF try_rebuild' THEN "rebuild" ELSE "exited"
                   ELSE IF p = "EMPTY_TNC" /\ r.ans THEN "rebuild"
                   ELSE pc
          /\ disconnected' =
                (disconnected \/ (r.ans /\ p = "FILE_IS_DISCONNECTED"))
          /\ media' = IF r.ans /\ p = "FILE_IS_INCONSISTENT"
                      THEN media \ {f} ELSE media
          /\ dirty' =
                IF r.ans /\ p \notin RebuildCallers /\ p # "FILE_IS_INCONSISTENT"
                THEN dirty \cup resolved
                ELSE IF ~r.ans /\ p = "DISCONNECTED_FILE_CANNOT_BE_RECOVERED"
                THEN {g \in dirty : g.type # "FILE_IS_DISCONNECTED"}
                ELSE dirty
          /\ effects' =
                effects
                \cup (IF r.ans THEN {"fix"} ELSE {})
                \cup (IF r.ans /\ p \in TncRemovers THEN {"tnc_remove"} ELSE {})
                \cup (IF r.ans /\ p = "FILE_IS_INCONSISTENT"
                      THEN {"ino_patch", "dev_write"} ELSE {})
                \cup (IF r.ans /\ p = "ROOT_DIR_NOT_FOUND"
                      THEN {"dev_write"} ELSE {})
    /\ UNCHANGED <<run, prev, start_mode, mode, lpt_status>>
    /\ UNCHANGED othersThanRun

CommitNothing(final_commit) == FALSE

\* commit_fix_modifications(): ubifs_run_commit() writes when it is forced
\* (c->mounting) or when the index or the space table is dirty.
CommitWrites(final_commit) ==
    \/ final_commit
    \/ FSCK_NONDESTRUCT \in exit_code
    \/ dirty # {}
    \/ "tnc_remove" \in effects

\* A do_fsck() that goes on after a commit that failed.
commit_out_goes_on(e, next_pc) == next_pc

\* do_fsck() on what commit_fix_modifications(c, false) returns: an error
\* ends the run.
commit_out(e, next_pc) == IF e # 0 THEN "exited" ELSE next_pc

(***************************************************************************)
(* The current step ends with nothing more to report.  choice is the       *)
(* input-dependent outcome of the step: whether the load noticed a bad     *)
(* space table, whether calculate_file_info() met a data block beyond the  *)
(* file size, whether ubifs_run_commit() failed in a commit that has       *)
(* something to write.                                                     *)
(***************************************************************************)
step_done(choice) ==
    /\ pc \in StepNames
    /\ Pending(pc) = {}
    /\ LET check_exit == pc = "check_and_correct_space" /\ mode = CHECK_MODE
           fails == /\ pc \in {"commit", "final_commit"}
                    /\ CommitWrites(pc = "final_commit")
                    /\ choice
           commits == /\ pc \in {"commit", "final_commit"}
                      /\ CommitWrites(pc = "final_commit")
                      /\ ~fails
       IN /\ pc' = IF check_exit \/ pc = "final_commit" THEN "exited"
                   ELSE IF pc = "check_and_create_root" /\ ~disconnected
                        THEN "final_commit"
                   ELSE IF pc = "commit"
                        THEN commit_out(IF fails THEN -1 ELSE 0,
                                        Steps[StepIndex(pc) + 1])
                   ELSE Steps[StepIndex(pc) + 1]
          /\ exit_code' = IF check_exit /\ lpt_status
                          THEN exit_code \cup {FSCK_UNCORRECTED}
                          ELSE IF fails THEN exit_code \cup {FSCK_ERROR}
                          ELSE exit_code
          /\ lpt_status' =
                IF pc = "mount_orphans"
                THEN choice /\ \E f \in media : f.site = "check_and_correct_space"
                ELSE lpt_status
          /\ media' = IF commits THEN media \ dirty ELSE media
          /\ dirty' = IF commits THEN {} ELSE dirty
          /\ effects' =
                effects
                \cup (IF pc = "read_master" /\ mode # CHECK_MODE
                      THEN {"dev_write"} ELSE {})
                \cup (IF pc = "calculate_file_info" /\ choice
                         /\ mode # REBUILD_MODE
                      THEN {"tnc_remove"} ELSE {})
                \cup (IF pc = "check_and_correct_space" /\ ~check_exit
                      THEN {"dev_write"} ELSE {})
                \cup (IF commits THEN {"dev_write"} ELSE {})
    /\ UNCHANGED <<run, prev, start_mode, mode, try_rebuild, disconnected,
                   done, seen, fixed, skipped, aborted_on>>
    /\ UNCHANGED othersThanRun

(***************************************************************************)
(* ubifs_rebuild_filesystem(): the mode becomes REBUILD_MODE first; ok is  *)
(* whether every step of the rebuild succeeded.                            *)
(***************************************************************************)
ubifs_rebuild_filesystem(ok) ==
    /\ pc = "rebuild"
    /\ mode' = REBUILD_MODE
    /\ pc' = "exited"
    /\ exit_code' = IF ok THEN exit_code ELSE exit_code \cup {FSCK_ERROR}
    /\ media' = IF ok THEN {} ELSE media
    /\ dirty' = {}
    /\ effects' = effects \cup {"rebuild"}
                          \cup (IF ok THEN {"dev_write"} ELSE {})
    /\ UNCHANGED <<run, prev, start_mode, try_rebuild, lpt_status,
                   disconnected, done, seen, fixed, skipped, aborted_on>>
    /\ UNCHANGED othersThanRun

\* A handler that commits what the run has changed before it exits.
signal_cancel_commits ==
    /\ pc \notin {"idle", "exited"}
    /\ exit_code' = exit_code \cup {FSCK_CANCELED}
    /\ pc' = "exited"
    /\ effects' = effects \cup {"dev_write"}
    /\ media' = media \ dirty
    /\ dirty' = {}
    /\ UNCHANGED <<run, prev, start_mode, mode, try_rebuild, lpt_status,
                   disconnected, done, seen, fixed, skipped, aborted_on>>
    /\ UNCHANGED othersThanRun

\* signal_cancel(): SIGINT or SIGTERM arrives while the run is under way;
\* the handler sets FSCK_CANCELED and calls exit(), which runs
\* exit_callback().
signal_cancel ==
    /\ pc \notin {"idle", "exited"}
    /\ exit_code' = exit_code \cup {FSCK_CANCELED}
    /\ pc' = "exited"
    /\ UNCHANGED <<run, prev, start_mode, mode, try_rebuild, lpt_status,
                   disconnected, media, done, dirty, seen, fixed, skipped,
                   aborted_on, effects>>
    /\ UNCHANGED othersThanRun

\* The program is invoked again on the device the first run left.
second_run(m) ==
    /\ run = 1
    /\ pc = "exited"
    /\ \/ m = start_mode
       \/ start_mode = CHECK_MODE /\ m \in {DANGER_MODE0, DANGER_MODE1}
    /\ run' = 2
    /\ prev' = [mode |-> start_mode, seen |-> seen, exit_code |-> exit_code]
    /\ start_mode' = m
    /\ mode' = m
    /\ pc' = "read_superblock"
    /\ exit_code' = {}
    /\ try_rebuild' = FALSE
    /\ lpt_status' = FALSE
    /\ disconnected' = FALSE
    /\ done' = {}
    /\ dirty' = {}
    /\ seen' = {}
    /\ fixed' = {}
    /\ skipped' = {}
    /\ aborted_on' = {}
    /\ effects' = {}
    /\ UNCHANGED media
    /\ UNCHANGED othersThanRun

\* No file tree is being validated.
TreeIdle ==
    /\ scanned_tree = <<>>
    /\ disconnected_files = <<>>
    /\ flash_nlink = <<>>
    /\ flash_attrs = <<>>

\* No walk is running.
WalkIdle ==
    /\ walk_file = 0
    /\ walk_node = 0
    /\ walk_dent = [file |-> 0, idx |-> 0]
    /\ walk_path = <<>>
    /\ walk_unreachable = <<>>

\* No space table is being checked.
SpaceIdle ==
    /\ main_area = <<>>
    /\ lpt = <<>>
    /\ lst = <<>>
    /\ calc_lst = <<>>

\* No step of the rebuild has returned and no LEB is taken for the garbage
\* collector.
StepIdle ==
    /\ err = 0
    /\ idx_cnt = 0
    /\ gc_lnum = 0
    /\ tnc = [nodes |-> <<>>, zroot |-> 0]
    /\ taken = <<>>

\* No disconnected file has been handled.
DiscIdle ==
    /\ lost_and_found = 0
    /\ disc_ret = 0
    /\ handled = <<>>

\* No node of the index has been found invalid.
LeafIdle == invalid_nodes = <<>>

\* The LEBs of the device the library writes, as the model numbers them:
\* 0 holds the master node, 1 the log, 2 and 3 are LEBs of the main area.
DevLebs == 0..3

\* No commit has run and nothing was written: every LEB holds what the
\* device held when it was opened.
CmtIdle ==
    /\ cmt_state = "COMMIT_RESTING"
    /\ ro_error = 0
    /\ dev = [l \in DevLebs |-> "old"]
    /\ dev_calls = <<>>
    /\ lib_op = "none"
    /\ lib_ret = "0"

\* c->min_io_size and c->max_write_size of the device.
min_io_size == 8

max_write_size == 16

\* The write-buffer as ubifs_wbuf_init() leaves it.
WbufIdle ==
    /\ wbuf = [lnum |-> -1, offs |-> -1, size |-> max_write_size,
               avail |-> max_write_size, used |-> 0]

IoIdle == CmtIdle /\ WbufIdle

LibIdle == DiscIdle /\ LeafIdle /\ IoIdle

RunInit ==
    /\ run = 1
    /\ prev = NoPrev
    /\ media \in FaultSets(MaxFaults)
    /\ \E m \in StartModes : init_fsck_info(m)

Next ==
    \/ \E a \in BOOLEAN : report_problem(a)
    \/ \E b \in BOOLEAN : step_done(b)
    \/ \E ok \in BOOLEAN : ubifs_rebuild_filesystem(ok)
    \/ \E m \in StartModes : second_run(m)

Init ==
    /\ RunInit /\ BuildStart /\ TreeIdle /\ SpaceIdle /\ WalkIdle /\ StepIdle
    /\ LibIdle

Spec == Init /\ [][Next]_vars

\* One run of main().  main() is a sequential program: whenever it can take
\* a step, it does.
RunNext ==
    \/ \E a \in BOOLEAN : report_problem(a)
    \/ \E b \in BOOLEAN : step_done(b)
    \/ \E ok \in BOOLEAN : ubifs_rebuild_filesystem(ok)

FairSpec == Init /\ [][RunNext]_vars /\ WF_vars(RunNext)

\* One run with the signals: SIGINT or SIGTERM can arrive at every step.
SignalNext ==
    \/ \E a \in BOOLEAN : report_problem(a)
    \/ \E b \in BOOLEAN : step_done(b)
    \/ \E ok \in BOOLEAN : ubifs_rebuild_filesystem(ok)
    \/ signal_cancel

SpecSignal == Init /\ [][SignalNext]_vars

BuildInit ==
    /\ BuildStart /\ RunIdle /\ TreeIdle /\ SpaceIdle /\ WalkIdle /\ StepIdle
    /\ LibIdle

SpecBuild == BuildInit /\ [][BuildNext]_vars

(***************************************************************************)
(* File validation and reconciliation (extract_files.c, check_files.c):    *)
(* handle_invalid_files(), handle_dentry_tree(), check_and_correct_files().*)
(*                                                                         *)
(* The files of this part are directories, regular files and extended      *)
(* attribute files, none of them encrypted.  A file's dent_nodes are kept  *)
(* in the order of insert_file_dentry(), ascending sequence number, its    *)
(* data nodes by block number.  In a                                       *)
(* directory entry, type is the type of its key (entry or extended         *)
(* attribute entry), dtype the inode type it records, key_inum the inum of *)
(* the parent or host it lies in.                                          *)
(***************************************************************************)
TreeInums == {1, 2, 3}
InoNlinks == {1, 2}
MaxDents == 2

TreeModes == {CHECK_MODE, SAFE_MODE, DANGER_MODE0}

\* What lookup_file() returns when the tree has no file of that inum.
NULL == [inum |-> 0]

\* scanned_dent_node: key_inum is the inum of the parent the entry lies in.
DentNodes == [key_inum : TreeInums, can_be_found : {FALSE}]

RECURSIVE DentSeqs(_)
DentSeqs(n) ==
    IF n = 0 THEN {<<>>}
    ELSE LET shorter == DentSeqs(n - 1)
         IN shorter \cup {Append(s, d) : s \in {t \in shorter : Len(t) = n - 1},
                                         d \in DentNodes}

\* A translation that takes every inode mode for a regular file's.
ubifs_get_dent_type_all_reg(file_mode) == UBIFS_ITYPE_REG

\* ubifs_get_dent_type(): the directory entry type of an inode mode.
ubifs_get_dent_type(file_mode) ==
    CASE file_mode = S_IFREG -> UBIFS_ITYPE_REG
      [] file_mode = S_IFDIR -> UBIFS_ITYPE_DIR
      [] OTHER -> "none"

\* The entries as they lie in a file of the given mode when every one of
\* them is a directory entry of the file's own type.
TypedDents(ds, file_mode) ==
    [k \in 1..Len(ds) |->
        [key_inum |-> ds[k].key_inum, can_be_found |-> ds[k].can_be_found,
         type |-> UBIFS_DENT_KEY, dtype |-> ubifs_get_dent_type(file_mode),
         sqnum |-> k, nlen |-> 1]]

\* The scanned_file records a scan can hand to the passes for one inum:
\* files without extended attributes and data whose entries have the type
\* of the inode.
ScannedFiles(inum) ==
    {[inum |-> inum,
      ino |-> [exist |-> TRUE, mode |-> t, nlink |-> n, is_xattr |-> FALSE,
               sqnum |-> 0, size |-> 0, xcnt |-> 0, xsz |-> 0, xnms |-> 0],
      dent_nodes |-> TypedDents(ds, t), calc_nlink |-> 0, calc_size |-> 0,
      calc_xcnt |-> 0, calc_xsz |-> 0, calc_xnms |-> 0,
      trun |-> NoNode, data |-> <<>>, xattr_files |-> {}]
        : t \in {S_IFDIR, S_IFREG}, n \in InoNlinks, ds \in DentSeqs(MaxDents)}
    \cup
    {[inum |-> inum,
      ino |-> [exist |-> FALSE, mode |-> "none", nlink |-> 0,
               is_xattr |-> FALSE, sqnum |-> 0, size |-> 0, xcnt |-> 0,
               xsz |-> 0, xnms |-> 0],
      dent_nodes |-> TypedDents(<<d>>, S_IFREG), calc_nlink |-> 0,
      calc_size |-> 0, calc_xcnt |-> 0, calc_xsz |-> 0, calc_xnms |-> 0,
      trun |-> NoNode, data |-> <<>>, xattr_files |-> {}] : d \in DentNodes}

\* The root as a scan can find it: parse_ino_node() accepts a root inode
\* only when it is a directory.  It has no directory entry, or the one that
\* FILE_ROOT_HAS_DENT is about.
RootFiles ==
    {f \in ScannedFiles(UBIFS_ROOT_INO) :
        /\ f.ino.exist
        /\ f.ino.mode = S_IFDIR
        /\ \/ f.dent_nodes = <<>>
           \/ /\ Len(f.dent_nodes) = 1
              /\ f.ino.nlink = 2
              /\ f.dent_nodes[1].key_inum = 2}

FilesOf(inum) ==
    IF inum = UBIFS_ROOT_INO THEN RootFiles ELSE ScannedFiles(inum)

Min(S) == CHOOSE x \in S : \A y \in S : x <= y

\* Every tree over a set of inums: each inum is absent or holds one file.
RECURSIVE TreesOver(_)
TreesOver(S) ==
    IF S = {} THEN {<<>>}
    ELSE LET i == Min(S)
             rest == TreesOver(S \ {i})
         IN rest \cup
            {[j \in DOMAIN t \cup {i} |-> IF j = i THEN f ELSE t[j]]
                : t \in rest, f \in FilesOf(i)}

lookup_file(tree, inum) ==
    IF inum \in DOMAIN tree THEN tree[inum] ELSE NULL

\* A verdict that never tells the caller that the file is disconnected.
FileVerdict_never_disconnected(ret, file, is_disconnected, host, problems) ==
    [ret |-> ret, file |-> file, is_disconnected |-> FALSE,
     host |-> host, problems |-> problems]

\* The result of file_is_valid(): its return value, the file as the
\* function left it, whether it reached the assignment to *is_diconnected
\* (the caller that passes no pointer does not see it), the inum of the
\* host insert_xattr_file() put the file into (0 for none), and the
\* problems handed to handle_invalid_file() in order.
FileVerdict(ret, file, is_disconnected, host, problems) ==
    [ret |-> ret, file |-> file, is_disconnected |-> is_disconnected,
     host |-> host, problems |-> problems]

\* A handler that hands the problem to fix_problem() in every mode.
handle_invalid_file_any_mode(m, problem_type) == <<problem_type>>

\* handle_invalid_file(): the problem goes to fix_problem() unless the file
\* system is being rebuilt.  The value is what is reported, in order.
handle_invalid_file(m, problem_type) ==
    IF m = REBUILD_MODE THEN <<>> ELSE <<problem_type>>

\* handle_invalid_file() called k times for the same problem.
RECURSIVE handle_invalid_nodes(_, _, _)
handle_invalid_nodes(m, problem_type, k) ==
    IF k = 0 THEN <<>>
    ELSE handle_invalid_file(m, problem_type)
         \o handle_invalid_nodes(m, problem_type, k - 1)

S_ISDIR(file_mode) == file_mode = S_IFDIR

\* A host check that accepts every host.
host_is_xattr_never(parent_file) == FALSE

\* file_is_valid(): "Host cannot be a xattr file."
host_is_xattr(parent_file) == parent_file.ino.is_xattr

file_is_valid(m, file, tree) ==
    IF ~file.ino.exist
    THEN FileVerdict(0, file, FALSE, 0,
            handle_invalid_file(m, "FILE_HAS_NO_INODE"))
    ELSE IF file.ino.nlink = 0
    THEN FileVerdict(0, file, FALSE, 0,
            handle_invalid_file(m, "FILE_HAS_0_NLINK_INODE"))
    ELSE
    LET type == ubifs_get_dent_type(file.ino.mode)
        is_xattr == file.ino.is_xattr
        \* entries of another type than the inode's are dropped
        consistent ==
            SelectSeq(file.dent_nodes,
                LAMBDA d : /\ (d.type = UBIFS_XENT_KEY) = is_xattr
                           /\ d.dtype = type)
        p0 == handle_invalid_nodes(m, "FILE_HAS_INCONSIST_TYPE",
                  Len(file.dent_nodes) - Len(consistent))
        \* a directory or extended attribute file keeps the last entry only
        n == Len(consistent)
        many == (type = UBIFS_ITYPE_DIR \/ is_xattr) /\ n > 1
        kept == IF many THEN <<consistent[n]>> ELSE consistent
        p1 == p0 \o (IF many
                     THEN handle_invalid_nodes(m, "FILE_HAS_TOO_MANY_DENT",
                              n - 1)
                     ELSE <<>>)
        \* only a regular file that is no extended attribute has data
        no_data == ~(type = UBIFS_ITYPE_REG /\ ~is_xattr)
        p2 == p1 \o (IF no_data
                     THEN handle_invalid_nodes(m, "FILE_SHOULDNT_HAVE_DATA",
                              Cardinality(DOMAIN file.data))
                     ELSE <<>>)
        file1 == [file EXCEPT
                    !.dent_nodes = kept,
                    !.trun = IF no_data THEN [@ EXCEPT !.exist = FALSE]
                             ELSE @,
                    !.data = IF no_data THEN <<>> ELSE @]
        parent_file == IF kept # <<>>
                       THEN lookup_file(tree, kept[1].key_inum)
                       ELSE NULL
    IN
    IF kept # <<>> /\ file.inum = UBIFS_ROOT_INO
    THEN FileVerdict(0, file1, FALSE, 0,
            p2 \o handle_invalid_file(m, "FILE_ROOT_HAS_DENT"))
    ELSE IF kept = <<>> /\ file.inum # UBIFS_ROOT_INO
    THEN IF type = UBIFS_ITYPE_REG /\ ~is_xattr
         THEN FileVerdict(0, file1, TRUE, 0,
                 p2 \o handle_invalid_file(m, "FILE_IS_DISCONNECTED"))
         ELSE FileVerdict(0, file1, FALSE, 0,
                 p2 \o handle_invalid_file(m, "FILE_HAS_NO_DENT"))
    ELSE IF is_xattr
    THEN IF parent_file = NULL
         THEN FileVerdict(0, file1, FALSE, 0,
                 p2 \o handle_invalid_file(m, "XATTR_HAS_NO_HOST"))
         ELSE IF host_is_xattr(parent_file)
         THEN FileVerdict(0, file1, FALSE, 0,
                 p2 \o handle_invalid_file(m, "XATTR_HAS_WRONG_HOST"))
         ELSE FileVerdict(1, file1, FALSE, parent_file.inum, p2)
    ELSE IF parent_file # NULL /\ ~S_ISDIR(parent_file.ino.mode)
    THEN IF type = UBIFS_ITYPE_REG
         THEN FileVerdict(0,
                 IF m # REBUILD_MODE
                 THEN [file1 EXCEPT !.dent_nodes = <<>>]
                 ELSE file1,
                 TRUE, 0,
                 p2 \o handle_invalid_file(m, "FILE_IS_DISCONNECTED"))
         ELSE FileVerdict(0, file1, FALSE, 0, p2)
    ELSE FileVerdict(1, file1, FALSE, 0, p2)

\* Whether file_is_valid() and its caller took nodes of the file out of the
\* index: delete_node() on a dropped entry or data node, delete_file() on
\* an invalid file.  Nothing is taken out when the file system is rebuilt.
removes_nodes(m, file, v, has_ptr) ==
    /\ m # REBUILD_MODE
    /\ \/ v.file.dent_nodes # file.dent_nodes
       \/ v.file.data # file.data
       \/ v.ret = 0 /\ ~(has_ptr /\ v.is_disconnected)

Max(S) == CHOOSE x \in S : \A y \in S : x >= y

\* The tree without the files of the given inums (rb_erase).
rb_erase(tree, gone) == [i \in DOMAIN tree \ gone |-> tree[i]]

\* Round 1 of handle_invalid_files() and filter_invalid_files(): the
\* extended attribute files, last listed first (list_add() puts each at the
\* head of tmp_list), each erased from the tree before it is checked; a
\* valid one is in its host's xattr_files afterwards, an invalid one is
\* deleted.
RECURSIVE validate_xattr_files(_, _, _)
validate_xattr_files(m, todo, acc) ==
    IF todo = {} THEN acc
    ELSE LET i == Max(todo)
             tree1 == rb_erase(acc.tree, {i})
             v == file_is_valid(m, acc.tree[i], tree1)
         IN validate_xattr_files(m, todo \ {i},
                [acc EXCEPT
                    !.tree = IF v.ret = 1
                             THEN [tree1 EXCEPT ![v.host].xattr_files =
                                      @ \cup {v.file}]
                             ELSE tree1,
                    !.removed =
                        @ \/ removes_nodes(m, acc.tree[i], v, FALSE),
                    !.problems = @ \o v.problems])

\* Round 2 of handle_invalid_files(): the files in rb-tree (inum) order.
\* acc holds the tree so far, the invalid files (tmp_list), the
\* disconnected ones, and the problems in order.
RECURSIVE validate_files(_, _, _)
validate_files(m, todo, acc) ==
    IF todo = {} THEN acc
    ELSE LET i == Min(todo)
             v == file_is_valid(m, acc.tree[i], acc.tree)
         IN validate_files(m, todo \ {i},
                [tree |-> [acc.tree EXCEPT ![i] = v.file],
                 invalid |-> IF v.ret = 0 /\ ~v.is_disconnected
                             THEN acc.invalid \cup {i} ELSE acc.invalid,
                 disconnected |-> IF v.ret = 0 /\ v.is_disconnected
                                  THEN <<v.file>> \o acc.disconnected
                                  ELSE acc.disconnected,
                 removed |-> \/ acc.removed
                             \/ removes_nodes(m, acc.tree[i], v, TRUE),
                 problems |-> acc.problems \o v.problems])

XattrInums(tree) == {i \in DOMAIN tree : tree[i].ino.is_xattr}

RECURSIVE SeqToSet(_)
SeqToSet(s) == IF s = <<>> THEN {} ELSE {Head(s)} \cup SeqToSet(Tail(s))

\* A directory entry is named by the file it belongs to and its position in
\* that file's dent_nodes.
DentAt(tree, d) == tree[d.file].dent_nodes[d.idx]

\* A cycle check that never finds the entry on the path.
path_is_cyclical_never(d, walked) == FALSE

\* dentry_is_reachable(): "Check whether the path is cyclical."  The entry
\* the function is called on is already on the path.
path_is_cyclical(d, walked) == d \in SeqToSet(walked)

\* dentry_is_reachable(): walk from the entry to its parent, then along the
\* first entry of each parent, until the root.  The value holds the answer,
\* the tree with the can_be_found marks set, and the path walked.
RECURSIVE dentry_is_reachable(_, _, _)
dentry_is_reachable(tree, d, path_list) ==
    IF path_is_cyclical(d, path_list)
    THEN [ret |-> FALSE, tree |-> tree, path_list |-> path_list]
    ELSE IF DentAt(tree, d).can_be_found
    THEN [ret |-> TRUE, tree |-> tree, path_list |-> path_list]
    ELSE
    LET tree1 == [tree EXCEPT
                    ![d.file].dent_nodes[d.idx].can_be_found = TRUE]
        path1 == <<d>> \o path_list
        parent_file == lookup_file(tree1, DentAt(tree, d).key_inum)
    IN IF parent_file = NULL
       THEN [ret |-> FALSE, tree |-> tree1, path_list |-> path1]
       ELSE IF parent_file.inum = UBIFS_ROOT_INO
       THEN [ret |-> TRUE, tree |-> tree1, path_list |-> path1]
       ELSE IF parent_file.dent_nodes = <<>>
       THEN [ret |-> FALSE, tree |-> tree1, path_list |-> path1]
       ELSE dentry_is_reachable(tree1,
                [file |-> parent_file.inum, idx |-> 1], path1)

\* dents without the entries at the positions in gone, from position k on.
RECURSIVE erase_dents(_, _, _)
erase_dents(dents, gone, k) ==
    IF k > Len(dents) THEN <<>>
    ELSE (IF k \in gone THEN <<>> ELSE <<dents[k]>>)
         \o erase_dents(dents, gone, k + 1)

\* The tree after every entry of the path was erased from its file.
erase_path(tree, path_list) ==
    [i \in DOMAIN tree |->
        [tree[i] EXCEPT !.dent_nodes =
            erase_dents(@, {d.idx : d \in {e \in SeqToSet(path_list) :
                                               e.file = i}}, 1)]]

\* The loop of file_is_reachable() over the file's entries, from position
\* k; after an unreachable entry the whole path is reported and erased and
\* the loop starts again (goto retry).
RECURSIVE check_dents(_, _, _, _, _)
check_dents(m, tree, inum, k, problems) ==
    IF k > Len(tree[inum].dent_nodes)
    THEN [tree |-> tree, problems |-> problems]
    ELSE LET r == dentry_is_reachable(tree, [file |-> inum, idx |-> k], <<>>)
         IN IF r.ret
            THEN check_dents(m, r.tree, inum, k + 1, problems)
            ELSE check_dents(m, erase_path(r.tree, r.path_list), inum, 1,
                    problems \o
                    handle_invalid_nodes(m, "DENTRY_IS_UNREACHABLE",
                        Len(r.path_list)))

file_is_reachable(m, tree, inum) ==
    IF inum = UBIFS_ROOT_INO
    THEN [ret |-> TRUE, tree |-> tree, problems |-> <<>>]
    ELSE LET c == check_dents(m, tree, inum, 1, <<>>)
         IN IF c.tree[inum].dent_nodes = <<>>
            THEN [ret |-> FALSE, tree |-> c.tree,
                  problems |-> c.problems \o handle_invalid_file(m,
                      IF c.tree[inum].ino.mode = S_IFREG
                      THEN "FILE_IS_DISCONNECTED" ELSE "FILE_HAS_NO_DENT")]
            ELSE [ret |-> TRUE, tree |-> c.tree, problems |-> c.problems]

\* The first loop of handle_dentry_tree(): the files in inum order; the
\* unreachable ones are put at the head of the list.
RECURSIVE reach_files(_, _, _)
reach_files(m, todo, acc) ==
    IF todo = {} THEN acc
    ELSE LET i == Min(todo)
             r == file_is_reachable(m, acc.tree, i)
         IN reach_files(m, todo \ {i},
                [tree |-> r.tree,
                 unreachable |-> IF r.ret THEN acc.unreachable
                                 ELSE <<i>> \o acc.unreachable,
                 problems |-> acc.problems \o r.problems])

\* A second loop that deletes every unreachable file.
move_unreachable_deletes_all(tree, unreachable, list) == list

\* The second loop of handle_dentry_tree(): the unreachable regular files
\* go to the head of the disconnected list, the others are deleted.
RECURSIVE move_unreachable(_, _, _)
move_unreachable(tree, unreachable, list) ==
    IF unreachable = <<>> THEN list
    ELSE move_unreachable(tree, Tail(unreachable),
            IF tree[Head(unreachable)].ino.mode = S_IFREG
            THEN <<tree[Head(unreachable)]>> \o list
            ELSE list)

\* fix_problem() on each reported problem in turn, in a mode that does not
\* prompt: the reports up to the first fatal one, what was fixed, the exit
\* bits, and whether fatal_error() ended the run.
RECURSIVE judge(_, _, _)
judge(m, problems, acc) ==
    IF problems = <<>> \/ acc.fatal THEN acc
    ELSE LET p == Head(problems)
             r == fix_problem(m, p, TRUE)
         IN judge(m, Tail(problems),
                [seen |-> acc.seen \cup {p},
                 fixed |-> IF r.ans THEN acc.fixed \cup {p} ELSE acc.fixed,
                 code |-> acc.code \cup r.code,
                 aborted_on |-> IF r.fatal THEN {p} ELSE {},
                 fatal |-> r.fatal])

NoVerdict ==
    [seen |-> {}, fixed |-> {}, code |-> {}, aborted_on |-> {},
     fatal |-> FALSE]

\* A link count rule that counts every directory entry of the file and adds
\* two for a directory.
calculate_file_info_counts_dents(file, tree) ==
    [file |-> [file EXCEPT !.calc_nlink =
                  Len(file.dent_nodes)
                  + (IF file.ino.mode = S_IFDIR THEN 2 ELSE 0)],
     tree |-> tree]

S_ISREG(file_mode) == file_mode = S_IFREG

\* The file size a data node reaches to.
DataEnd(d) == d.size + d.block * UBIFS_BLOCK_SIZE

\* A rule that drops every data node that ends behind the size of the
\* truncation node or of the inode node, whichever was written first.
IsTruncated_any_order(file, d) ==
    \/ file.trun.exist /\ file.trun.size < DataEnd(d)
    \/ file.ino.size < DataEnd(d)

\* calculate_file_info() on a regular file's data: a data node older than
\* a truncation node or inode node that ends before it is dropped.
IsTruncated(file, d) ==
    LET trun_size == IF file.trun.exist THEN file.trun.size ELSE 0
        trun_sqnum == IF file.trun.exist THEN file.trun.sqnum ELSE 0
    IN \/ trun_sqnum > d.sqnum /\ trun_size < DataEnd(d)
       \/ file.ino.sqnum > d.sqnum /\ file.ino.size < DataEnd(d)

\* The largest size the data nodes reach to (new_size).
MaxDataEnd(ds) ==
    LET ends == {DataEnd(ds[b]) : b \in DOMAIN ds}
    IN IF ends = {} THEN 0 ELSE Max(ends)

\* A size rule that takes the end of the data for the size of the file.
calc_size_of_data_only(file, kept) == MaxDataEnd(kept)

\* The size calculate_file_info() computes for a regular file from the
\* data nodes it keeps.
calc_size_of(file, kept) ==
    LET trun_size == IF file.trun.exist THEN file.trun.size ELSE 0
        trun_sqnum == IF file.trun.exist THEN file.trun.sqnum ELSE 0
        new_size == MaxDataEnd(kept)
    IN IF trun_sqnum > file.ino.sqnum /\ trun_size < file.ino.size
       THEN IF trun_size < new_size THEN new_size ELSE trun_size
       ELSE IF new_size > file.ino.size THEN new_size ELSE file.ino.size

\* The sizes of an inode node and of a directory entry node without its
\* name (ubifs-media.h).
UBIFS_INO_NODE_SZ == 160
UBIFS_DENT_NODE_SZ == 56

\* ALIGN(x, a): x rounded up to a multiple of a.
ALIGN(x, a) == ((x + a - 1) \div a) * a

CALC_DENT_SIZE(name_len) == ALIGN(UBIFS_DENT_NODE_SZ + name_len + 1, 8)

CALC_XATTR_BYTES(data_len) == ALIGN(UBIFS_INO_NODE_SZ + data_len + 1, 8)

\* The sum of n over the pairs <<id, n>> of a set.
RECURSIVE SumOfPairs(_)
SumOfPairs(S) ==
    IF S = {} THEN 0
    ELSE LET p == CHOOSE q \in S : TRUE
         IN p[2] + SumOfPairs(S \ {p})

\* The first loop of calculate_file_info(): every extended attribute file
\* gets calc_nlink 1 and its own size, and the host counts it.
calculate_xattr_info(file) ==
    [file EXCEPT
        !.xattr_files = {[x EXCEPT !.calc_nlink = 1,
                                   !.calc_size = x.ino.size] : x \in @},
        !.calc_xcnt = @ + Cardinality(file.xattr_files),
        !.calc_xsz = @ + SumOfPairs(
            {<<x.inum, CALC_DENT_SIZE(x.dent_nodes[1].nlen)
                       + CALC_XATTR_BYTES(x.ino.size)>> :
                x \in file.xattr_files}),
        !.calc_xnms = @ + SumOfPairs(
            {<<x.inum, x.dent_nodes[1].nlen>> : x \in file.xattr_files})]

\* A parent update that adds to the size only.
add_to_parent_size_only(s, p, n, sz) ==
    IF p = s.file.inum
    THEN [s EXCEPT !.file.calc_size = @ + sz]
    ELSE [s EXCEPT !.tree[p].calc_size = @ + sz]

\* parent_file->calc_nlink += n and parent_file->calc_size += sz on the
\* file lookup_file() has found for p, which can be the file at work.
add_to_parent(s, p, n, sz) ==
    IF p = s.file.inum
    THEN [s EXCEPT !.file.calc_nlink = @ + n, !.file.calc_size = @ + sz]
    ELSE [s EXCEPT !.tree[p].calc_nlink = @ + n, !.tree[p].calc_size = @ + sz]

\* A loop over the entries that leaves the parents as they are.
count_dent_nodes_no_size(s, k) == s

\* The loop of calculate_file_info() over the entries of a file that is no
\* directory, from entry k on.  It ends at the first entry whose parent is
\* not in the tree.
RECURSIVE count_dent_nodes(_, _)
count_dent_nodes(s, k) ==
    IF k > Len(s.file.dent_nodes) THEN s
    ELSE IF lookup_file(s.tree, s.file.dent_nodes[k].key_inum) = NULL
    THEN [s EXCEPT !.no_parent = TRUE]
    ELSE count_dent_nodes(
            add_to_parent(s, s.file.dent_nodes[k].key_inum, 0,
                          CALC_DENT_SIZE(s.file.dent_nodes[k].nlen)),
            k + 1)

\* The data nodes of a regular file that calculate_file_info() keeps.
KeptData(file) ==
    [b \in {a \in DOMAIN file.data : ~IsTruncated(file, file.data[a])}
        |-> file.data[b]]

\* calculate_file_info(): the file with its calc_ fields set and the
\* truncated data nodes dropped, and the tree with what the function has
\* added to the calc_nlink and calc_size of the file's parents.  The entry
\* of the tree for the file itself is left for the caller to replace.
calculate_file_info(file, tree) ==
    IF file.inum = UBIFS_ROOT_INO
    THEN [file |-> [calculate_xattr_info(file) EXCEPT
                       !.calc_nlink = @ + 2,
                       !.calc_size = @ + UBIFS_INO_NODE_SZ],
          tree |-> tree]
    ELSE IF S_ISDIR(file.ino.mode)
    THEN \* the parent named by the first entry counts the directory
         IF lookup_file(tree, file.dent_nodes[1].key_inum) = NULL
         THEN [file |-> [calculate_xattr_info(file) EXCEPT
                            !.calc_nlink = @ + 2,
                            !.calc_size = @ + UBIFS_INO_NODE_SZ],
               tree |-> tree]
         ELSE add_to_parent(
                [file |-> [calculate_xattr_info(file) EXCEPT
                              !.calc_nlink = @ + 2,
                              !.calc_size = @ + UBIFS_INO_NODE_SZ],
                 tree |-> tree],
                file.dent_nodes[1].key_inum, 1,
                CALC_DENT_SIZE(file.dent_nodes[1].nlen))
    ELSE LET s == count_dent_nodes([file |-> calculate_xattr_info(file),
                                    tree |-> tree, no_parent |-> FALSE], 1)
         IN IF s.no_parent
            THEN [file |-> s.file, tree |-> s.tree]
            ELSE IF ~S_ISREG(file.ino.mode)
            THEN [file |-> [s.file EXCEPT
                               !.calc_nlink = Len(file.dent_nodes),
                               !.calc_size = file.ino.size],
                  tree |-> s.tree]
            ELSE [file |-> [s.file EXCEPT
                               !.calc_nlink = Len(file.dent_nodes),
                               !.calc_size =
                                   calc_size_of(file, KeptData(file)),
                               !.data = KeptData(file)],
                  tree |-> s.tree]

\* The first loop of check_and_correct_files().
RECURSIVE calculate_files(_, _)
calculate_files(tree, todo) ==
    IF todo = {} THEN tree
    ELSE LET i == Min(todo)
             r == calculate_file_info(tree[i], tree)
         IN calculate_files([r.tree EXCEPT ![i] = r.file], todo \ {i})

\* The fields of an inode node correct_file_info() compares and writes,
\* but for nlink.
InoAttrs(ino) ==
    [size |-> ino.size, xcnt |-> ino.xcnt, xsz |-> ino.xsz,
     xnms |-> ino.xnms]

CalcAttrs(file) ==
    [size |-> file.calc_size, xcnt |-> file.calc_xcnt,
     xsz |-> file.calc_xsz, xnms |-> file.calc_xnms]

\* A comparison that looks at the link count and the size only.
correct_inode_nlink_and_size(m, file, acc) ==
    IF /\ file.calc_nlink = file.ino.nlink
       /\ file.calc_size = file.ino.size
    THEN acc
    ELSE [nlink |-> [acc.nlink EXCEPT ![file.inum] = file.calc_nlink],
          attrs |-> [acc.attrs EXCEPT ![file.inum] = CalcAttrs(file)],
          problems |-> acc.problems
                       \o handle_invalid_file(m, "FILE_IS_INCONSISTENT"),
          patched |-> acc.patched \cup {file.inum}]

\* correct_file_info() behind its loop over the extended attribute files:
\* nothing when the calculated values are the inode's, else
\* FILE_IS_INCONSISTENT is reported and the inode node on the device is
\* patched.  acc holds nlink and attrs of every inode node on the device,
\* the problems reported, and patched, the inums whose inode node was
\* rewritten.
correct_inode(m, file, acc) ==
    IF /\ file.calc_nlink = file.ino.nlink
       /\ CalcAttrs(file) = InoAttrs(file.ino)
    THEN acc
    ELSE [nlink |-> [acc.nlink EXCEPT ![file.inum] = file.calc_nlink],
          attrs |-> [acc.attrs EXCEPT ![file.inum] = CalcAttrs(file)],
          problems |-> acc.problems
                       \o handle_invalid_file(m, "FILE_IS_INCONSISTENT"),
          patched |-> acc.patched \cup {file.inum}]

\* The loop of correct_file_info() over the extended attribute files,
\* which have none of their own.
RECURSIVE correct_xattr_files(_, _, _)
correct_xattr_files(m, xattr_files, acc) ==
    IF xattr_files = {} THEN acc
    ELSE LET x == CHOOSE y \in xattr_files :
                      \A z \in xattr_files : y.inum <= z.inum
         IN correct_xattr_files(m, xattr_files \ {x},
                                correct_inode(m, x, acc))

correct_file_info(m, file, acc) ==
    correct_inode(m, file, correct_xattr_files(m, file.xattr_files, acc))

\* The second loop of check_and_correct_files().
RECURSIVE correct_files(_, _, _, _)
correct_files(m, tree, todo, acc) ==
    IF todo = {} THEN acc
    ELSE correct_files(m, tree, todo \ {Min(todo)},
                       correct_file_info(m, tree[Min(todo)], acc))

\* The loop of check_and_correct_files() over the disconnected files: the
\* values are calculated, the link count is reset to one, and the inode is
\* corrected.  acc holds the tree and the list as well.
RECURSIVE correct_disconnected(_, _, _)
correct_disconnected(m, list, acc) ==
    IF list = <<>> THEN acc
    ELSE LET c == calculate_file_info(Head(list), acc.tree)
             file == [c.file EXCEPT !.calc_nlink = 1]
             r == correct_file_info(m, file,
                    [nlink |-> acc.nlink, attrs |-> acc.attrs,
                     problems |-> acc.problems, patched |-> acc.patched])
         IN correct_disconnected(m, Tail(list),
                [nlink |-> r.nlink, attrs |-> r.attrs,
                 problems |-> r.problems, patched |-> r.patched,
                 tree |-> c.tree, list |-> Append(acc.list, file)])

\* The entries <<j, k>> of the files of the tree that lie in file i.
EntriesIn(tree, i) ==
    {p \in UNION {{<<j, k>> : k \in 1..Len(tree[j].dent_nodes)} :
                     j \in DOMAIN tree} :
        tree[p[1]].dent_nodes[p[2]].key_inum = i}

\* The size the file system keeps in a directory's inode while it is
\* mounted: ubifs_create() and its kin add CALC_DENT_SIZE() per entry to
\* the UBIFS_INO_NODE_SZ a directory is made with.
MountedDirSize(tree, i) ==
    UBIFS_INO_NODE_SZ
    + SumOfPairs({<<p, CALC_DENT_SIZE(tree[p[1]].dent_nodes[p[2]].nlen)>> :
                    p \in {q \in EntriesIn(tree, i) :
                             ~tree[q[1]].ino.is_xattr}})

\* The extended attribute files of the tree whose entry lies in file i.
XattrsIn(tree, i) ==
    {j \in DOMAIN tree : /\ tree[j].ino.is_xattr
                         /\ tree[j].dent_nodes # <<>>
                         /\ tree[j].dent_nodes[1].key_inum = i}

\* The tree with the inodes of the directories in S holding that size.
WithDirSizes(tree, S) ==
    [i \in DOMAIN tree |->
        IF i \in S /\ S_ISDIR(tree[i].ino.mode)
        THEN [tree[i] EXCEPT !.ino.size = MountedDirSize(tree, i)]
        ELSE tree[i]]

\* The tree as the mounted file system keeps it: every directory holds
\* that size, and every file the count, the size and the name lengths of
\* the extended attributes it hosts.
MountedTree(tree) ==
    [i \in DOMAIN tree |->
        [WithDirSizes(tree, DOMAIN tree)[i] EXCEPT
            !.ino.xcnt = Cardinality(XattrsIn(tree, i)),
            !.ino.xsz = SumOfPairs(
                {<<j, CALC_DENT_SIZE(tree[j].dent_nodes[1].nlen)
                      + CALC_XATTR_BYTES(tree[j].ino.size)>> :
                    j \in XattrsIn(tree, i)}),
            !.ino.xnms = SumOfPairs(
                {<<j, tree[j].dent_nodes[1].nlen>> :
                    j \in XattrsIn(tree, i)})]]

\* What the three passes have in common: the reports go to the policy
\* engine, and a fatal answer ends the run.  did is what the pass has done
\* to the index and the device when it comes to its end.
tree_report(v, next_pc, did) ==
    /\ seen' = seen \cup v.seen
    /\ fixed' = fixed \cup v.fixed
    /\ exit_code' = exit_code \cup v.code
    /\ aborted_on' = aborted_on \cup v.aborted_on
    /\ pc' = IF v.fatal THEN "exited" ELSE next_pc
    /\ effects' = IF v.fatal THEN effects ELSE effects \cup did
    /\ UNCHANGED <<run, prev, start_mode, mode, try_rebuild, lpt_status,
                   media, done, dirty, skipped>>
    /\ UNCHANGED <<buildVars, spaceVars, stepVars, libVars>>

handle_invalid_files ==
    /\ pc = "handle_invalid_files"
    /\ scanned_tree # <<>>
    /\ \E r1 \in {validate_xattr_files(mode, XattrInums(scanned_tree),
                    [tree |-> scanned_tree, removed |-> FALSE,
                     problems |-> <<>>])} :
       \E r \in {validate_files(mode, DOMAIN r1.tree,
                    [tree |-> r1.tree, invalid |-> {},
                     disconnected |-> disconnected_files,
                     removed |-> r1.removed,
                     problems |-> r1.problems])} :
       \E v \in {judge(mode, r.problems, NoVerdict)} :
       LET moved == {f.inum : f \in SeqToSet(r.disconnected)}
       IN /\ tree_report(v, "handle_dentry_tree",
                IF r.removed THEN {"tnc_remove"} ELSE {})
          /\ scanned_tree' = IF v.fatal THEN scanned_tree
                             ELSE rb_erase(r.tree, r.invalid \cup moved)
          /\ disconnected_files' = IF v.fatal THEN disconnected_files
                                   ELSE r.disconnected
          /\ disconnected' = (disconnected_files' # <<>>)
    /\ UNCHANGED <<flash_nlink, flash_attrs, walkVars>>

handle_dentry_tree ==
    /\ pc = "handle_dentry_tree"
    /\ \E r \in {reach_files(mode, DOMAIN scanned_tree,
                    [tree |-> scanned_tree, unreachable |-> <<>>,
                     problems |-> <<>>])} :
       \E v \in {judge(mode, r.problems, NoVerdict)} :
       LET \* delete_node() on the unreachable entries, delete_file() on
           \* the unreachable files that are not regular
           removed ==
               /\ mode # REBUILD_MODE
               /\ \/ \E i \in DOMAIN scanned_tree :
                        Len(r.tree[i].dent_nodes)
                            # Len(scanned_tree[i].dent_nodes)
                  \/ \E i \in SeqToSet(r.unreachable) :
                        ~S_ISREG(r.tree[i].ino.mode)
       IN /\ tree_report(v, "calculate_file_info",
                IF removed THEN {"tnc_remove"} ELSE {})
          /\ scanned_tree' = IF v.fatal THEN scanned_tree
                             ELSE rb_erase(r.tree, SeqToSet(r.unreachable))
          /\ disconnected_files' =
                IF v.fatal THEN disconnected_files
                ELSE move_unreachable(r.tree, r.unreachable,
                                      disconnected_files)
          /\ disconnected' = (disconnected_files' # <<>>)
    /\ UNCHANGED <<flash_nlink, flash_attrs, walkVars>>

check_and_correct_files ==
    /\ pc = "calculate_file_info"
    /\ \E tree \in {calculate_files(scanned_tree, DOMAIN scanned_tree)} :
       \E r1 \in {correct_files(mode, tree, DOMAIN tree,
                    [nlink |-> flash_nlink, attrs |-> flash_attrs,
                     problems |-> <<>>, patched |-> {}])} :
       \E r2 \in {correct_disconnected(mode, disconnected_files,
                    [nlink |-> r1.nlink, attrs |-> r1.attrs,
                     problems |-> r1.problems, patched |-> r1.patched,
                     tree |-> tree, list |-> <<>>])} :
       \E v \in {judge(mode, r2.problems, NoVerdict)} :
       LET \* delete_node() on the data nodes calculate_file_info() drops
           removed ==
               /\ mode # REBUILD_MODE
               /\ \/ \E i \in DOMAIN tree :
                        tree[i].data # scanned_tree[i].data
                  \/ \E k \in 1..Len(r2.list) :
                        r2.list[k].data # disconnected_files[k].data
       IN /\ tree_report(v,
                IF mode = REBUILD_MODE THEN "traverse_files_and_nodes"
                ELSE "tnc_is_empty",
                (IF removed THEN {"tnc_remove"} ELSE {})
                \cup (IF r2.patched # {} THEN {"ino_patch", "dev_write"}
                      ELSE {}))
          /\ scanned_tree' = IF v.fatal THEN scanned_tree ELSE r2.tree
          /\ disconnected_files' = IF v.fatal THEN disconnected_files
                                   ELSE r2.list
          /\ flash_nlink' = IF v.fatal THEN flash_nlink ELSE r2.nlink
          /\ flash_attrs' = IF v.fatal THEN flash_attrs ELSE r2.attrs
          /\ UNCHANGED <<disconnected, walkVars>>

\* The passes start on the tree a scan has built, in a mode that does not
\* prompt.
TreeInit ==
    /\ BuildStart
    /\ WalkIdle
    /\ SpaceIdle
    /\ StepIdle
    /\ LibIdle
    /\ run = 1
    /\ prev = NoPrev
    /\ media = {}
    /\ \E m \in TreeModes : start_mode = m /\ mode = m
    /\ pc = "handle_invalid_files"
    /\ exit_code = {}
    /\ try_rebuild = FALSE
    /\ lpt_status = FALSE
    /\ disconnected = FALSE
    /\ done = {}
    /\ dirty = {}
    /\ seen = {}
    /\ fixed = {}
    /\ skipped = {}
    /\ aborted_on = {}
    /\ effects = {}
    /\ scanned_tree \in {MountedTree(t) : t \in TreesOver(TreeInums) \ {<<>>}}
    /\ disconnected_files = <<>>
    /\ flash_nlink = [i \in DOMAIN scanned_tree |-> scanned_tree[i].ino.nlink]
    /\ flash_attrs = [i \in DOMAIN scanned_tree |->
                         InoAttrs(scanned_tree[i].ino)]

TreeNext ==
    \/ handle_invalid_files
    \/ handle_dentry_tree
    \/ check_and_correct_files

SpecTree == TreeInit /\ [][TreeNext]_vars

(***************************************************************************)
(* The reachability walk (extract_files.c): the first loop of              *)
(* handle_dentry_tree() and of extract_dentry_tree(), one call of          *)
(* dentry_is_reachable() at a time.  pc is "file_is_reachable" at the head *)
(* of the loop of file_is_reachable() (label retry and every rb_next()),   *)
(* "dentry_is_reachable" at the entry of a call of that function,          *)
(* "remove_path" when a call chain has returned false, and                 *)
(* "move_unreachable" when the first loop has ended.                       *)
(***************************************************************************)
\* The trees the validation pass leaves as they are: it finds nothing to
\* report, to drop or to move in them.
ValidTrees ==
    {t \in TreesOver(TreeInums) \ {<<>>} :
        \E r \in {validate_files(CHECK_MODE, DOMAIN t,
                    [tree |-> t, invalid |-> {}, disconnected |-> <<>>,
                     removed |-> FALSE, problems |-> <<>>])} :
            /\ r.problems = <<>>
            /\ r.tree = t
            /\ r.invalid = {}
            /\ r.disconnected = <<>>}

NoDent == [file |-> 0, idx |-> 0]

\* rb_next(): the inum of the file after inum, 0 at the end of the tree.
rb_next(tree, inum) ==
    IF \E j \in DOMAIN tree : j > inum
    THEN Min({j \in DOMAIN tree : j > inum})
    ELSE 0

\* file_is_reachable() returns ret: handle_dentry_tree() puts an unreachable
\* file at the head of its list and goes on with the next file.
file_is_reachable_returns(ret) ==
    /\ walk_unreachable' = IF ret THEN walk_unreachable
                           ELSE <<walk_file>> \o walk_unreachable
    /\ walk_file' = rb_next(scanned_tree, walk_file)
    /\ walk_node' = 1
    /\ walk_dent' = NoDent
    /\ walk_path' = <<>>

\* The head of the loop of file_is_reachable(): the next entry is handed to
\* dentry_is_reachable(), or the loop has ended (at once for the root) and
\* the function returns.
file_is_reachable_loop ==
    /\ pc = "file_is_reachable"
    /\ IF /\ walk_file # UBIFS_ROOT_INO
          /\ walk_node <= Len(scanned_tree[walk_file].dent_nodes)
       THEN /\ tree_report(NoVerdict, "dentry_is_reachable", {})
            /\ walk_dent' = [file |-> walk_file, idx |-> walk_node]
            /\ walk_path' = <<>>
            /\ UNCHANGED <<walk_file, walk_node, walk_unreachable>>
       ELSE \E ret \in {\/ walk_file = UBIFS_ROOT_INO
                        \/ scanned_tree[walk_file].dent_nodes # <<>>} :
            \E v \in {judge(mode,
                        IF ret THEN <<>>
                        ELSE handle_invalid_file(mode,
                                IF S_ISREG(scanned_tree[walk_file].ino.mode)
                                THEN "FILE_IS_DISCONNECTED"
                                ELSE "FILE_HAS_NO_DENT"),
                        NoVerdict)} :
               /\ tree_report(v,
                     IF rb_next(scanned_tree, walk_file) = 0
                     THEN "move_unreachable" ELSE "file_is_reachable", {})
               /\ file_is_reachable_returns(ret)
    /\ UNCHANGED <<treeVars, disconnected>>

\* One call of dentry_is_reachable() on walk_dent: the cycle check, the
\* quick path, then the entry is marked and put at the head of the path and
\* the parent is looked up; the call returns or calls itself on the first
\* entry of the parent.
dentry_is_reachable_call ==
    /\ pc = "dentry_is_reachable"
    /\ LET tree1 == [scanned_tree EXCEPT
                       ![walk_dent.file].dent_nodes[walk_dent.idx]
                           .can_be_found = TRUE]
           parent_file ==
               lookup_file(tree1, DentAt(scanned_tree, walk_dent).key_inum)
           returns_true ==
               /\ tree_report(NoVerdict, "file_is_reachable", {})
               /\ walk_node' = walk_node + 1
               /\ walk_dent' = NoDent
               /\ walk_path' = <<>>
           returns_false ==
               /\ tree_report(NoVerdict, "remove_path", {})
               /\ walk_dent' = NoDent
               /\ UNCHANGED walk_node
       IN IF path_is_cyclical(walk_dent, walk_path)
          THEN returns_false /\ UNCHANGED <<scanned_tree, walk_path>>
          ELSE IF DentAt(scanned_tree, walk_dent).can_be_found
          THEN returns_true /\ UNCHANGED scanned_tree
          ELSE /\ scanned_tree' = tree1
               /\ IF parent_file = NULL
                  THEN returns_false /\ walk_path' = <<walk_dent>> \o walk_path
                  ELSE IF parent_file.inum = UBIFS_ROOT_INO
                  THEN returns_true
                  ELSE IF parent_file.dent_nodes = <<>>
                  THEN returns_false /\ walk_path' = <<walk_dent>> \o walk_path
                  ELSE /\ tree_report(NoVerdict, "dentry_is_reachable", {})
                       /\ walk_dent' = [file |-> parent_file.inum, idx |-> 1]
                       /\ walk_path' = <<walk_dent>> \o walk_path
                       /\ UNCHANGED walk_node
    /\ UNCHANGED <<walk_file, walk_unreachable>>
    /\ UNCHANGED <<disconnected_files, flash_nlink, flash_attrs,
                   disconnected>>

\* The while loop of file_is_reachable() after a call chain that returned
\* false: every entry of the path is reported, deleted from the index unless
\* the file system is being rebuilt, and erased from its file; then the loop
\* over the file's entries starts again (goto retry).  fail_at is the
\* position on the path of the entry delete_node() fails on, 0 when it
\* fails on none: the function then ends with "return err", and its result
\* type is bool, so that the caller is handed true.
remove_unreachable_path(fail_at) ==
    /\ pc = "remove_path"
    /\ fail_at <= Len(walk_path)
    /\ fail_at > 0 => mode # REBUILD_MODE
    /\ \E handled_cnt \in {IF fail_at = 0 THEN Len(walk_path) ELSE fail_at} :
       \E v \in {judge(mode,
                    handle_invalid_nodes(mode, "DENTRY_IS_UNREACHABLE",
                        handled_cnt),
                    NoVerdict)} :
       \E erased \in {IF fail_at = 0 THEN walk_path
                      ELSE SubSeq(walk_path, 1, fail_at - 1)} :
          /\ fail_at > 0 => ~v.fatal
          /\ tree_report(v,
                IF fail_at = 0 THEN "file_is_reachable"
                ELSE IF rb_next(scanned_tree, walk_file) = 0
                     THEN "move_unreachable" ELSE "file_is_reachable",
                IF mode # REBUILD_MODE /\ erased # <<>>
                THEN {"tnc_remove"} ELSE {})
          /\ scanned_tree' = IF v.fatal THEN scanned_tree
                             ELSE erase_path(scanned_tree, erased)
    /\ walk_file' = IF fail_at = 0 THEN walk_file
                    ELSE rb_next(scanned_tree, walk_file)
    /\ walk_node' = 1
    /\ walk_path' = <<>>
    /\ UNCHANGED <<walk_dent, walk_unreachable>>
    /\ UNCHANGED <<disconnected_files, flash_nlink, flash_attrs,
                   disconnected>>

\* The walk starts on the first file of a tree the validation pass has left,
\* on the check path or on the rebuild path.
WalkInit ==
    /\ BuildStart
    /\ SpaceIdle
    /\ StepIdle
    /\ LibIdle
    /\ run = 1
    /\ prev = NoPrev
    /\ media = {}
    /\ \/ /\ start_mode \in TreeModes
          /\ mode = start_mode
          /\ exit_code = {}
          /\ try_rebuild = FALSE
          /\ seen = {}
          /\ fixed = {}
          /\ effects = {}
       \/ /\ start_mode = DANGER_MODE1
          /\ mode = REBUILD_MODE
          /\ exit_code = {FSCK_NONDESTRUCT}
          /\ try_rebuild = TRUE
          /\ seen = {"TNC_CORRUPTED"}
          /\ fixed = {"TNC_CORRUPTED"}
          /\ effects = {"fix"}
    /\ pc = "file_is_reachable"
    /\ lpt_status = FALSE
    /\ disconnected = FALSE
    /\ done = {}
    /\ dirty = {}
    /\ skipped = {}
    /\ aborted_on = {}
    /\ scanned_tree \in ValidTrees
    /\ disconnected_files = <<>>
    /\ flash_nlink = [i \in DOMAIN scanned_tree |-> scanned_tree[i].ino.nlink]
    /\ flash_attrs = [i \in DOMAIN scanned_tree |->
                         InoAttrs(scanned_tree[i].ino)]
    /\ walk_file = Min(DOMAIN scanned_tree)
    /\ walk_node = 1
    /\ walk_dent = NoDent
    /\ walk_path = <<>>
    /\ walk_unreachable = <<>>

WalkNext ==
    \/ file_is_reachable_loop
    \/ dentry_is_reachable_call
    \/ \E fail_at \in 0..Len(walk_path) : remove_unreachable_path(fail_at)

SpecWalk == WalkInit /\ [][WalkNext]_vars

\* The walk is one sequential loop: whenever it can take a step, it does.
FairSpecWalk == SpecWalk /\ WF_vars(WalkNext)

(***************************************************************************)
(* The rebuild (rebuild_fs.c): ubifs_rebuild_filesystem() step by step.    *)
(* scan_nodes() hands every node of the device to process_scanned_node(),  *)
(* remove_del_nodes() and add_valid_nodes_into_file() turn the trees of    *)
(* the scan into files, filter_invalid_files() and extract_dentry_tree()   *)
(* drop the invalid and unreachable ones, check_and_correct_files()        *)
(* reconciles the rest, and the index is built from what is left.  From    *)
(* add_valid_nodes_into_file() on, FSCK(c)->scanned_files is held in       *)
(* scanned_tree.                                                           *)
(***************************************************************************)
\* The nodes a raw scan can meet: the root inode, the inode of a regular
\* file written three times (created, unlinked, linked again), an entry of
\* the root naming the file, the same entry deleted, the entry written
\* again, and a data node of the file.
RawIno(inum, file_mode, nlink, sqnum) ==
    [exist |-> TRUE, type |-> UBIFS_INO_KEY, inum |-> inum, block |-> 0,
     sqnum |-> sqnum, size |-> 1, nlink |-> nlink, mode |-> file_mode,
     is_xattr |-> FALSE, xcnt |-> 0, xsz |-> 0, xnms |-> 0]

RawDent(key_inum, name, inum, sqnum) ==
    [exist |-> TRUE, type |-> UBIFS_DENT_KEY, inum |-> inum,
     key_inum |-> key_inum, name |-> name, dtype |-> UBIFS_ITYPE_REG,
     sqnum |-> sqnum, can_be_found |-> FALSE, nlen |-> 1]

RawData(inum, sqnum) ==
    [exist |-> TRUE, type |-> UBIFS_DATA_KEY, inum |-> inum, block |-> 0,
     sqnum |-> sqnum, size |-> 1, nlink |-> 0, mode |-> "none",
     is_xattr |-> FALSE]

RawNodes ==
    {RawIno(UBIFS_ROOT_INO, S_IFDIR, 2, 1),
     RawIno(2, S_IFREG, 1, 1), RawIno(2, S_IFREG, 0, 2),
     RawIno(2, S_IFREG, 1, 3),
     RawDent(UBIFS_ROOT_INO, "a", 2, 1), RawDent(UBIFS_ROOT_INO, "a", 0, 2),
     RawDent(UBIFS_ROOT_INO, "a", 2, 3),
     RawData(2, 1)}

\* One round of the loop of scan_nodes(): the next node of the device goes
\* to process_scanned_node().
scan_nodes(sn) ==
    /\ pc = "scan_nodes"
    /\ Len(scanned) < MaxRaw
    /\ store_scanned_node(sn)
    /\ UNCHANGED othersThanBuild

\* The rest of the rebuild changes the run's position and nothing else of
\* the run.
rebuild_step(next_pc) ==
    /\ pc' = next_pc
    /\ UNCHANGED <<run, prev, start_mode, mode, exit_code, try_rebuild,
                   lpt_status, disconnected, media, done, dirty, skipped,
                   aborted_on, effects>>
    /\ UNCHANGED <<scanned, spaceVars, walkVars, stepVars, libVars>>

\* scan_nodes() has met the last node.
scan_nodes_done ==
    /\ pc = "scan_nodes"
    /\ rebuild_step("remove_del_nodes")
    /\ UNCHANGED <<seen, fixed>>
    /\ UNCHANGED <<scanned_files, valid_inos, del_inos, valid_dents,
                   del_dents, treeVars>>

\* A lookup that returns the valid node when the deleted one is older.
lookup_valid_ino_node_older(valid, target) ==
    IF target.inum \in DOMAIN valid
    THEN IF target.sqnum < valid[target.inum].sqnum
         THEN valid[target.inum] ELSE NULL
    ELSE NULL

\* lookup_valid_ino_node(): the valid inode node of the target's key, when
\* the target has the larger sequence number.
lookup_valid_ino_node(valid, target) ==
    IF target.inum \in DOMAIN valid
    THEN IF target.sqnum > valid[target.inum].sqnum
         THEN valid[target.inum] ELSE NULL
    ELSE NULL

\* A lookup that returns the valid entry when the deleted one is older.
lookup_valid_dent_node_older(valid, target) ==
    IF DentKey(target) \in DOMAIN valid
    THEN IF target.sqnum < valid[DentKey(target)].sqnum
         THEN valid[DentKey(target)] ELSE NULL
    ELSE NULL

\* lookup_valid_dent_node(): the same for directory entries.
lookup_valid_dent_node(valid, target) ==
    IF DentKey(target) \in DOMAIN valid
    THEN IF target.sqnum > valid[DentKey(target)].sqnum
         THEN valid[DentKey(target)] ELSE NULL
    ELSE NULL

remove_del_nodes ==
    /\ pc = "remove_del_nodes"
    /\ valid_inos' =
          rb_erase(valid_inos,
              {i \in DOMAIN del_inos :
                  lookup_valid_ino_node(valid_inos, del_inos[i]) # NULL})
    /\ del_inos' = <<>>
    /\ valid_dents' =
          rb_erase(valid_dents,
              {k \in DOMAIN del_dents :
                  lookup_valid_dent_node(valid_dents, del_dents[k]) # NULL})
    /\ del_dents' = <<>>
    /\ rebuild_step("add_valid_nodes_into_file")
    /\ UNCHANGED <<seen, fixed>>
    /\ UNCHANGED <<scanned_files, treeVars>>

\* insert_or_update_file() on every node of a tree, in the order of the keys.
RECURSIVE add_nodes(_, _, _)
add_nodes(tree, nodes, todo) ==
    IF todo = {} THEN tree
    ELSE LET k == CHOOSE x \in todo : TRUE
         IN add_nodes(insert_or_update_file(tree, nodes[k]), nodes,
                      todo \ {k})

add_valid_nodes_into_file ==
    /\ pc = "add_valid_nodes_into_file"
    /\ LET tree1 == add_nodes(scanned_files, valid_inos, DOMAIN valid_inos)
           tree2 == add_nodes(tree1, valid_dents, DOMAIN valid_dents)
       IN /\ scanned_tree' = tree2
          /\ flash_nlink' = [i \in DOMAIN tree2 |-> tree2[i].ino.nlink]
          /\ flash_attrs' = [i \in DOMAIN tree2 |-> InoAttrs(tree2[i].ino)]
    /\ scanned_files' = <<>>
    /\ valid_inos' = <<>>
    /\ valid_dents' = <<>>
    /\ rebuild_step("filter_invalid_files")
    /\ UNCHANGED <<seen, fixed>>
    /\ UNCHANGED <<del_inos, del_dents, disconnected_files>>

\* What rebuild hands to fix_problem(): the reports of
\* handle_invalid_file(), which are none while the mode is REBUILD_MODE.
rebuild_report(problems) ==
    \E v \in {judge(mode, problems, NoVerdict)} :
       /\ seen' = seen \cup v.seen
       /\ fixed' = fixed \cup v.fixed

filter_invalid_files ==
    /\ pc = "filter_invalid_files"
    /\ \E r1 \in {validate_xattr_files(mode, XattrInums(scanned_tree),
                    [tree |-> scanned_tree, removed |-> FALSE,
                     problems |-> <<>>])} :
       \E r \in {validate_files(mode, DOMAIN r1.tree,
                    [tree |-> r1.tree, invalid |-> {}, disconnected |-> <<>>,
                     removed |-> r1.removed, problems |-> r1.problems])} :
       LET \* no pointer is passed for is_diconnected: every invalid file
           \* is destroyed
           gone == r.invalid \cup {f.inum : f \in SeqToSet(r.disconnected)}
       IN /\ scanned_tree' = rb_erase(r.tree, gone)
          /\ rebuild_report(r.problems)
    /\ rebuild_step("extract_dentry_tree")
    /\ UNCHANGED <<scanned_files, valid_inos, del_inos, valid_dents,
                   del_dents, disconnected_files, flash_nlink, flash_attrs>>

extract_dentry_tree ==
    /\ pc = "extract_dentry_tree"
    /\ \E r \in {reach_files(mode, DOMAIN scanned_tree,
                    [tree |-> scanned_tree, unreachable |-> <<>>,
                     problems |-> <<>>])} :
          /\ scanned_tree' = rb_erase(r.tree, SeqToSet(r.unreachable))
          /\ rebuild_report(r.problems)
    /\ rebuild_step("calculate_file_info")
    /\ UNCHANGED <<scanned_files, valid_inos, del_inos, valid_dents,
                   del_dents, disconnected_files, flash_nlink, flash_attrs>>

\* traverse_files_and_nodes(), build_lpt(), clean_log(),
\* ubifs_clear_orphans() and write_master(): the index is built from the
\* files of the tree; ok is whether every one of these steps succeeded.
traverse_files_and_nodes(ok) ==
    /\ pc = "traverse_files_and_nodes"
    /\ pc' = "exited"
    /\ exit_code' = IF ok THEN exit_code ELSE exit_code \cup {FSCK_ERROR}
    /\ effects' = effects \cup {"rebuild"}
                          \cup (IF ok THEN {"dev_write"} ELSE {})
    /\ UNCHANGED <<run, prev, start_mode, mode, try_rebuild, lpt_status,
                   disconnected, media, done, dirty, seen, fixed, skipped,
                   aborted_on>>
    /\ UNCHANGED <<buildVars, treeVars, spaceVars, walkVars, stepVars,
                   libVars>>

\* ubifs_rebuild_filesystem() has set the mode and init_rebuild_info() has
\* run; the run had chosen DANGER_MODE1 and reported what made it rebuild.
RebuildInit ==
    /\ BuildStart
    /\ WalkIdle
    /\ TreeIdle
    /\ SpaceIdle
    /\ StepIdle
    /\ LibIdle
    /\ run = 1
    /\ prev = NoPrev
    /\ media = {}
    /\ start_mode = DANGER_MODE1
    /\ mode = REBUILD_MODE
    /\ pc = "scan_nodes"
    /\ exit_code = {FSCK_NONDESTRUCT}
    /\ try_rebuild = TRUE
    /\ lpt_status = FALSE
    /\ disconnected = FALSE
    /\ done = {}
    /\ dirty = {}
    /\ seen = {"TNC_CORRUPTED"}
    /\ fixed = {"TNC_CORRUPTED"}
    /\ skipped = {}
    /\ aborted_on = {}
    /\ effects = {"fix"}

RebuildNext ==
    \/ \E sn \in RawNodes : scan_nodes(sn)
    \/ scan_nodes_done
    \/ remove_del_nodes
    \/ add_valid_nodes_into_file
    \/ filter_invalid_files
    \/ extract_dentry_tree
    \/ check_and_correct_files
    \/ \E ok \in BOOLEAN : traverse_files_and_nodes(ok)

SpecRebuild == RebuildInit /\ [][RebuildNext]_vars

(***************************************************************************)
(* The validation passes on trees with extended attribute files, on the    *)
(* check path (handle_invalid_files() onwards) and on the rebuild path     *)
(* (filter_invalid_files() onwards).  The tree holds the root, a file 2    *)
(* that can be parent or host, a file 3 with up to MaxDents entries of any *)
(* key type and entry type, and an extended attribute file 4.              *)
(***************************************************************************)
VDent(key_inum, type, dtype, sqnum) ==
    [key_inum |-> key_inum, can_be_found |-> FALSE, type |-> type,
     dtype |-> dtype, sqnum |-> sqnum, nlen |-> 1]

VFile(inum, file_mode, is_xattr, nlink, dents, data_nodes) ==
    [inum |-> inum,
     ino |-> [exist |-> TRUE, mode |-> file_mode, nlink |-> nlink,
              is_xattr |-> is_xattr, sqnum |-> 0, size |-> 0, xcnt |-> 0,
              xsz |-> 0, xnms |-> 0],
     dent_nodes |-> dents, calc_nlink |-> 0, calc_size |-> 0,
     calc_xcnt |-> 0, calc_xsz |-> 0, calc_xnms |-> 0,
     trun |-> NoNode, data |-> data_nodes, xattr_files |-> {}]

\* parse_ino_node() accepts an extended attribute inode only when it is a
\* regular file.
VKinds ==
    {[mode |-> S_IFDIR, is_xattr |-> FALSE],
     [mode |-> S_IFREG, is_xattr |-> FALSE],
     [mode |-> S_IFREG, is_xattr |-> TRUE]}

\* The entry a file of the kind has when it lies in the file key_inum.
VOwnDent(kind, key_inum, sqnum) ==
    VDent(key_inum,
          IF kind.is_xattr THEN UBIFS_XENT_KEY ELSE UBIFS_DENT_KEY,
          ubifs_get_dent_type(kind.mode), sqnum)

\* Entries in the order of the file's dent_nodes: by sequence number.
RECURSIVE VDentSeqs(_)
VDentSeqs(n) ==
    IF n = 0 THEN {<<>>}
    ELSE LET shorter == VDentSeqs(n - 1)
         IN shorter \cup
            {Append(s, VDent(k, t, dt, n)) :
                s \in {x \in shorter : Len(x) = n - 1},
                k \in {1, 2, 4},
                t \in {UBIFS_DENT_KEY, UBIFS_XENT_KEY},
                dt \in {UBIFS_ITYPE_REG, UBIFS_ITYPE_DIR}}

VDataSets == {<<>>, [b \in {0} |-> RawData(3, 1)]}

VFiles(inum) ==
    CASE inum = UBIFS_ROOT_INO ->
            {VFile(UBIFS_ROOT_INO, S_IFDIR, FALSE, 2, <<>>, <<>>)}
      [] inum = 2 ->
            {VFile(2, kind.mode, kind.is_xattr, 1,
                   <<VOwnDent(kind, k, 1)>>, <<>>) :
                kind \in VKinds, k \in {1, 3}}
            \cup {VFile(2, S_IFREG, TRUE, 1,
                        <<VDent(4, UBIFS_XENT_KEY, UBIFS_ITYPE_REG, 1)>>,
                        <<>>)}
      [] inum = 3 ->
            {VFile(3, kind.mode, kind.is_xattr, 1, ds, dn) :
                kind \in VKinds, ds \in VDentSeqs(MaxDents),
                dn \in VDataSets}
      [] OTHER ->
            {VFile(inum, S_IFREG, TRUE, 1,
                   <<VDent(k, UBIFS_XENT_KEY, UBIFS_ITYPE_REG, 1)>>, <<>>) :
                k \in {2, 3}}

ValidInit ==
    /\ BuildStart
    /\ WalkIdle
    /\ SpaceIdle
    /\ StepIdle
    /\ LibIdle
    /\ run = 1
    /\ prev = NoPrev
    /\ media = {}
    /\ \/ /\ start_mode \in TreeModes
          /\ mode = start_mode
          /\ pc = "handle_invalid_files"
          /\ exit_code = {}
          /\ try_rebuild = FALSE
          /\ seen = {}
          /\ fixed = {}
          /\ effects = {}
       \/ /\ start_mode = DANGER_MODE1
          /\ mode = REBUILD_MODE
          /\ pc = "filter_invalid_files"
          /\ exit_code = {FSCK_NONDESTRUCT}
          /\ try_rebuild = TRUE
          /\ seen = {"TNC_CORRUPTED"}
          /\ fixed = {"TNC_CORRUPTED"}
          /\ effects = {"fix"}
    /\ lpt_status = FALSE
    /\ disconnected = FALSE
    /\ done = {}
    /\ dirty = {}
    /\ skipped = {}
    /\ aborted_on = {}
    /\ \E f2 \in VFiles(2), f3 \in VFiles(3), f4 \in VFiles(4),
          S \in SUBSET {2, 4} :
          scanned_tree = MountedTree(
             [i \in S \cup {UBIFS_ROOT_INO, 3} |->
                 CASE i = UBIFS_ROOT_INO ->
                         VFile(UBIFS_ROOT_INO, S_IFDIR, FALSE, 2, <<>>, <<>>)
                   [] i = 2 -> f2
                   [] i = 3 -> f3
                   [] OTHER -> f4])
    /\ disconnected_files = <<>>
    /\ flash_nlink = [i \in DOMAIN scanned_tree |-> scanned_tree[i].ino.nlink]
    /\ flash_attrs = [i \in DOMAIN scanned_tree |->
                         InoAttrs(scanned_tree[i].ino)]

ValidNext ==
    \/ handle_invalid_files
    \/ handle_dentry_tree
    \/ check_and_correct_files
    \/ filter_invalid_files
    \/ extract_dentry_tree
    \/ \E ok \in BOOLEAN : traverse_files_and_nodes(ok)

SpecValid == ValidInit /\ [][ValidNext]_vars

(***************************************************************************)
(* The reconciliation of sizes and extended attribute sums.  The tree      *)
(* holds the root, a directory 2, a regular file 3 with entries in the     *)
(* root or in 2, and an extended attribute file 4 of file 3.  File 3 is    *)
(* either a file whose inode, truncation and data nodes vary, or a file    *)
(* whose entries, link count and extended attribute sums vary.  The check  *)
(* starts at update_files_size(), the rebuild at filter_invalid_files().   *)
(***************************************************************************)
MaxNlen == 8
InfoNlens == {1, MaxNlen}

InfoDent(key_inum, file_mode, sqnum, nlen) ==
    [VDent(key_inum, UBIFS_DENT_KEY, ubifs_get_dent_type(file_mode), sqnum)
        EXCEPT !.nlen = nlen]

InfoXattrFile ==
    VFile(4, S_IFREG, TRUE, 1,
          <<VDent(3, UBIFS_XENT_KEY, UBIFS_ITYPE_REG, 1)>>, <<>>)

\* The truncation nodes and the data nodes file 3 can have: a truncation
\* older or newer than the inode (sqnum 2), one data node in each of the
\* blocks 0 and 1.
InfoTruns ==
    {NoNode}
    \cup {[NoNode EXCEPT !.exist = TRUE, !.type = UBIFS_TRUN_KEY, !.inum = 3,
                         !.sqnum = s, !.size = z] :
            s \in {1, 3}, z \in {0, UBIFS_BLOCK_SIZE}}

InfoData ==
    {[b \in B |-> [RawData(3, sq[b]) EXCEPT !.block = b]] :
        B \in SUBSET {0, 1}, sq \in [{0, 1} -> {1, 3}]}

InfoSizes == {1, UBIFS_BLOCK_SIZE + 1, UBIFS_BLOCK_SIZE + 2}

\* File 3 with one entry in the root, and every inode size, truncation node
\* and set of data nodes.
InfoSizedFiles ==
    {[VFile(3, S_IFREG, FALSE, 1, <<InfoDent(1, S_IFREG, 1, 1)>>, dn)
        EXCEPT !.ino.sqnum = 2, !.ino.size = sz, !.trun = t] :
        sz \in InfoSizes, t \in InfoTruns, dn \in InfoData}

\* File 3 with one data node, entries in the root and in file 2, and
\* extended attribute sums that count file 4 or nothing.
InfoLinkedFiles ==
    {[VFile(3, S_IFREG, FALSE, nl, ds,
            [b \in {0} |-> RawData(3, 1)])
        EXCEPT !.ino.sqnum = 2, !.ino.size = 1,
               !.ino.xcnt = x, !.ino.xnms = x,
               !.ino.xsz = x * (CALC_DENT_SIZE(1) + CALC_XATTR_BYTES(0))] :
        nl \in {1, 2}, x \in {0, 1},
        ds \in UNION {{<<InfoDent(1, S_IFREG, 1, n)>>,
                       <<InfoDent(1, S_IFREG, 1, 1),
                         InfoDent(2, S_IFREG, 2, n)>>,
                       <<InfoDent(2, S_IFREG, 1, n)>>} : n \in InfoNlens}}

InfoTrees ==
    {WithDirSizes(
        [i \in {UBIFS_ROOT_INO, 3} \cup D \cup X |->
            CASE i = UBIFS_ROOT_INO ->
                    VFile(UBIFS_ROOT_INO, S_IFDIR, FALSE,
                          2 + Cardinality(D), <<>>, <<>>)
              [] i = 2 -> VFile(2, S_IFDIR, FALSE, 2,
                                <<InfoDent(1, S_IFDIR, 1, 1)>>, <<>>)
              [] i = 3 -> f3
              [] OTHER -> InfoXattrFile], S) :
        f3 \in InfoSizedFiles \cup InfoLinkedFiles,
        D \in SUBSET {2}, X \in SUBSET {4}, S \in {{}, {UBIFS_ROOT_INO, 2}}}

\* The entries of c->size_tree the replay leaves for file 3.
SizeEntries ==
    [inum : {3}, exists : BOOLEAN, i_size : {1},
     d_size : {UBIFS_BLOCK_SIZE + 1}]

\* update_files_size(): in a check-only run the inode sizes in memory are
\* raised to the sizes the replay has found; the size tree holds at most one
\* entry here.
update_files_size(size_tree) ==
    /\ pc = "update_files_size"
    /\ pc' = "handle_invalid_files"
    /\ scanned_tree' =
          IF mode # CHECK_MODE THEN scanned_tree
          ELSE [i \in DOMAIN scanned_tree |->
                  IF \E en \in size_tree :
                        /\ en.exists
                        /\ en.i_size < en.d_size
                        /\ en.inum = i
                        /\ scanned_tree[i].ino.exist
                        /\ scanned_tree[i].ino.size < en.d_size
                  THEN [scanned_tree[i] EXCEPT !.ino.size =
                          (CHOOSE en \in size_tree : en.inum = i).d_size]
                  ELSE scanned_tree[i]]
    /\ UNCHANGED <<run, prev, start_mode, mode, exit_code, try_rebuild,
                   lpt_status, disconnected, media, done, dirty, seen, fixed,
                   skipped, aborted_on, effects>>
    /\ UNCHANGED <<disconnected_files, flash_nlink, flash_attrs>>
    /\ UNCHANGED <<buildVars, spaceVars, walkVars, stepVars, libVars>>

InfoInit ==
    /\ BuildStart
    /\ WalkIdle
    /\ SpaceIdle
    /\ StepIdle
    /\ LibIdle
    /\ run = 1
    /\ prev = NoPrev
    /\ media = {}
    /\ \/ /\ start_mode \in TreeModes
          /\ mode = start_mode
          /\ pc = "update_files_size"
          /\ exit_code = {}
          /\ try_rebuild = FALSE
          /\ seen = {}
          /\ fixed = {}
          /\ effects = {}
       \/ /\ start_mode = DANGER_MODE1
          /\ mode = REBUILD_MODE
          /\ pc = "filter_invalid_files"
          /\ exit_code = {FSCK_NONDESTRUCT}
          /\ try_rebuild = TRUE
          /\ seen = {"TNC_CORRUPTED"}
          /\ fixed = {"TNC_CORRUPTED"}
          /\ effects = {"fix"}
    /\ lpt_status = FALSE
    /\ disconnected = FALSE
    /\ done = {}
    /\ dirty = {}
    /\ skipped = {}
    /\ aborted_on = {}
    /\ scanned_tree \in InfoTrees
    /\ disconnected_files = <<>>
    /\ flash_nlink = [i \in DOMAIN scanned_tree |-> scanned_tree[i].ino.nlink]
    /\ flash_attrs = [i \in DOMAIN scanned_tree |->
                         InoAttrs(scanned_tree[i].ino)]

InfoNext ==
    \/ \E size_tree \in {{}} \cup {{en} : en \in SizeEntries} :
          update_files_size(size_tree)
    \/ handle_invalid_files
    \/ handle_dentry_tree
    \/ check_and_correct_files
    \/ filter_invalid_files
    \/ extract_dentry_tree
    \/ \E ok \in BOOLEAN : traverse_files_and_nodes(ok)

SpecInfo == InfoInit /\ [][InfoNext]_vars

(***************************************************************************)
(* Space accounting (check_space.c): check_and_correct_space(),            *)
(* rebuild_lpt() with build_lpt(), check_and_correct_lpt() with            *)
(* check_and_correct_pnode().                                              *)
(*                                                                         *)
(* A LEB of the main area is what ubifs_scan() and the index say about it: *)
(* whether the index refers to it (used_lebs), where its written part ends *)
(* (endpt), how many of its bytes the index still refers to (used), and    *)
(* whether its first node is an index node.  Sizes are counted in units of *)
(* the 8-byte alignment.  The dead and dark totals are left out.           *)
(***************************************************************************)
MaxLebSize == 2
leb_size == MaxLebSize
main_lebs == 2

SpaceModes == {CHECK_MODE, DANGER_MODE0}

ScannedLebs ==
    {[used_bit |-> FALSE, endpt |-> e, used |-> 0, idx_leb |-> FALSE]
        : e \in {0, leb_size}}
    \cup
    {l \in [used_bit : {TRUE}, endpt : 1..leb_size, used : 0..leb_size,
            idx_leb : BOOLEAN] : l.used <= l.endpt}

\* struct ubifs_lprops: free, dirty, and the LPROPS_INDEX flag.
Lprops ==
    {lp \in [free : 0..leb_size, dirty : 0..leb_size, index : BOOLEAN] :
        lp.free + lp.dirty <= leb_size}

\* struct ubifs_lp_stats after memset().
ZeroStats ==
    [empty_lebs |-> 0, idx_lebs |-> 0, total_free |-> 0, total_dirty |-> 0,
     total_used |-> 0]

\* A statistics rule that counts the used bytes of index LEBs too.
add_to_lst_counts_index(stats, nfree, ndirty, is_idx) ==
    [empty_lebs |-> stats.empty_lebs + (IF nfree = leb_size THEN 1 ELSE 0),
     idx_lebs |-> stats.idx_lebs + (IF is_idx THEN 1 ELSE 0),
     total_free |-> stats.total_free + nfree,
     total_dirty |-> stats.total_dirty + ndirty,
     total_used |-> stats.total_used + (leb_size - (nfree + ndirty))]

\* The statistics with one more LEB accounted: the block build_lpt() and
\* check_and_correct_pnode() share.
add_to_lst(stats, nfree, ndirty, is_idx) ==
    [empty_lebs |-> stats.empty_lebs + (IF nfree = leb_size THEN 1 ELSE 0),
     idx_lebs |-> stats.idx_lebs + (IF is_idx THEN 1 ELSE 0),
     total_free |-> stats.total_free + nfree,
     total_dirty |-> stats.total_dirty + ndirty,
     total_used |-> IF is_idx THEN stats.total_used
                    ELSE stats.total_used + (leb_size - (nfree + ndirty))]

\* scan_get_lp(): the properties of a LEB as its content gives them.  gc
\* tells that the LEB is c->gc_lnum.
scan_get_lp(leb, is_build_lpt, gc) ==
    IF ~leb.used_bit \/ (is_build_lpt /\ gc)
    THEN [free |-> leb_size, dirty |-> 0, is_idx |-> FALSE]
    ELSE IF is_build_lpt /\ leb.used = 0
    THEN [free |-> leb_size, dirty |-> 0, is_idx |-> FALSE]
    ELSE [free |-> leb_size - leb.endpt, dirty |-> leb.endpt - leb.used,
          is_idx |-> leb.idx_leb]

\* A search that returns the first LEB whether or not it is in use.
get_free_leb_first(area) == IF Len(area) > 0 THEN 1 ELSE 0

\* get_free_leb(): the first LEB the index does not refer to, 0 when none.
get_free_leb(area) ==
    IF \E i \in 1..Len(area) : ~area[i].used_bit
    THEN Min({i \in 1..Len(area) : ~area[i].used_bit})
    ELSE 0

\* The loop of build_lpt() from LEB i on.  acc holds the table and c->lst.
RECURSIVE build_lpt(_, _, _, _)
build_lpt(area, lnum, i, acc) ==
    IF i > Len(area) THEN acc
    ELSE LET leb == IF i = lnum
                    THEN [area[i] EXCEPT !.used_bit = TRUE] ELSE area[i]
             p == scan_get_lp(leb, TRUE, i = lnum)
         IN build_lpt(area, lnum, i + 1,
                [lpt |-> Append(acc.lpt, [free |-> p.free, dirty |-> p.dirty,
                                          index |-> p.is_idx]),
                 lst |-> add_to_lst(acc.lst, p.free, p.dirty, p.is_idx)])

\* The loop of check_and_correct_pnode() from LEB i on.  acc holds the
\* table, the statistics summed so far, FSCK(c)->lpt_status and the
\* problems reported.
RECURSIVE check_and_correct_pnode(_, _, _)
check_and_correct_pnode(area, i, acc) ==
    IF i > Len(area) THEN acc
    ELSE LET lp == acc.lpt[i]
             s == scan_get_lp(area[i], FALSE, FALSE)
             freeable == /\ ~acc.lpt_status
                         /\ lp.free + lp.dirty = leb_size
                         /\ ~area[i].used_bit
             p == IF freeable
                  THEN [free |-> lp.free, dirty |-> lp.dirty,
                        is_idx |-> lp.index]
                  ELSE s
             differs == \/ p.free # lp.free
                        \/ p.dirty # lp.dirty
                        \/ p.is_idx # lp.index
         IN check_and_correct_pnode(area, i + 1,
                [lpt |-> IF differs
                         THEN [acc.lpt EXCEPT ![i] =
                                 [free |-> p.free, dirty |-> p.dirty,
                                  index |-> p.is_idx]]
                         ELSE acc.lpt,
                 lst |-> add_to_lst(acc.lst, p.free, p.dirty, p.is_idx),
                 lpt_status |-> acc.lpt_status \/ differs,
                 problems |-> IF differs
                              THEN Append(acc.problems, "LP_INCORRECT")
                              ELSE acc.problems])

\* What the steps of the pass have in common.
space_report(v, next_pc) ==
    /\ seen' = seen \cup v.seen
    /\ fixed' = fixed \cup v.fixed
    /\ exit_code' = exit_code \cup v.code
    /\ aborted_on' = aborted_on \cup v.aborted_on
    /\ pc' = IF v.fatal THEN "exited" ELSE next_pc
    /\ UNCHANGED <<run, prev, start_mode, mode, try_rebuild, disconnected,
                   media, done, dirty, skipped, effects>>
    /\ UNCHANGED <<buildVars, treeVars, main_area, walkVars>>
    /\ UNCHANGED <<err, idx_cnt, tnc, taken, libVars>>

\* check_and_correct_space() up to the call of rebuild_lpt() or
\* check_and_correct_lpt().
check_and_correct_space ==
    /\ pc = "check_and_correct_space"
    /\ main_area # <<>>
    /\ IF mode = CHECK_MODE
       THEN /\ pc' = "exited"
            /\ exit_code' = IF lpt_status
                            THEN exit_code \cup {FSCK_UNCORRECTED}
                            ELSE exit_code
            /\ UNCHANGED <<seen, fixed, aborted_on>>
            /\ UNCHANGED <<run, prev, start_mode, mode, try_rebuild,
                           disconnected, media, done, dirty, skipped,
                           effects>>
            /\ UNCHANGED <<buildVars, treeVars, main_area, walkVars>>
            /\ UNCHANGED <<err, idx_cnt, tnc, taken, libVars>>
       ELSE IF lpt_status
       THEN space_report(judge(mode, <<"LPT_CORRUPTED">>, NoVerdict),
                         "rebuild_lpt")
       ELSE space_report(NoVerdict, "check_and_correct_lpt")
    /\ UNCHANGED <<lpt_status, lpt, lst, calc_lst, gc_lnum>>

\* rebuild_lpt(): the table and the statistics are built anew from the
\* scan; without a free LEB for garbage collection the pass fails.
rebuild_lpt ==
    /\ pc = "rebuild_lpt"
    /\ LET lnum == get_free_leb(main_area)
           r == build_lpt(main_area, lnum, 1,
                          [lpt |-> <<>>, lst |-> ZeroStats])
       IN IF lnum = 0
          THEN /\ space_report([NoVerdict EXCEPT !.code = {FSCK_ERROR},
                                                 !.fatal = TRUE], "exited")
               /\ lst' = ZeroStats
               /\ UNCHANGED <<lpt, lpt_status, gc_lnum>>
          ELSE /\ space_report(NoVerdict, "commit")
               /\ lpt' = r.lpt
               /\ lst' = r.lst
               /\ lpt_status' = FALSE
               /\ gc_lnum' = lnum
    /\ UNCHANGED calc_lst

\* check_and_correct_lpt(): every LEB's properties are compared with the
\* scan and corrected, then the statistics are compared with their sum.
check_and_correct_lpt ==
    /\ pc = "check_and_correct_lpt"
    /\ LET r == check_and_correct_pnode(main_area, 1,
                    [lpt |-> lpt, lst |-> ZeroStats,
                     lpt_status |-> lpt_status, problems |-> <<>>])
           stat_differs == r.lst # lst
           problems == IF stat_differs
                       THEN Append(r.problems, "SPACE_STAT_INCORRECT")
                       ELSE r.problems
           v == judge(mode, problems, NoVerdict)
       IN /\ space_report(v, "commit")
          /\ calc_lst' = r.lst
          /\ lpt' = IF v.fatal THEN lpt ELSE r.lpt
          /\ lst' = IF v.fatal THEN lst ELSE r.lst
          /\ lpt_status' = IF v.fatal THEN (r.lpt_status \/ stat_differs)
                           ELSE FALSE
    /\ UNCHANGED gc_lnum

\* The statistics that are the sums the table itself gives.
RECURSIVE StatsOfTable(_, _)
StatsOfTable(table, i) ==
    IF i = 0 THEN ZeroStats
    ELSE add_to_lst(StatsOfTable(table, i - 1), table[i].free,
                    table[i].dirty, table[i].index)

\* The pass starts on a scanned main area with a table that was loaded, or
\* with one that could not be (lpt_status), and on statistics that are the
\* table's or are not.
SpaceInit ==
    /\ BuildStart
    /\ WalkIdle
    /\ StepIdle
    /\ LibIdle
    /\ TreeIdle
    /\ run = 1
    /\ prev = NoPrev
    /\ media = {}
    /\ \E m \in SpaceModes : start_mode = m /\ mode = m
    /\ pc = "check_and_correct_space"
    /\ exit_code = {}
    /\ try_rebuild = FALSE
    /\ disconnected = FALSE
    /\ done = {}
    /\ dirty = {}
    /\ seen = {}
    /\ fixed = {}
    /\ skipped = {}
    /\ aborted_on = {}
    /\ effects = {}
    /\ main_area \in [1..main_lebs -> ScannedLebs]
    /\ lpt_status \in BOOLEAN
    /\ IF lpt_status
       THEN lpt = [i \in 1..main_lebs |->
                      [free |-> 0, dirty |-> 0, index |-> FALSE]]
       ELSE lpt \in [1..main_lebs -> Lprops]
    /\ lst \in {StatsOfTable(lpt, main_lebs), ZeroStats}
    /\ calc_lst = ZeroStats

SpaceNext ==
    \/ check_and_correct_space
    \/ rebuild_lpt
    \/ check_and_correct_lpt

SpecSpace == SpaceInit /\ [][SpaceNext]_vars

(***************************************************************************)
(* The rebuild with the return of every step (rebuild_fs.c,                *)
(* check_space.c): init_rebuild_info(), the steps of                       *)
(* ubifs_rebuild_filesystem() with their error branches, and steps 7 to 12 *)
(* one by one: traverse_files_and_nodes() with create_root() and           *)
(* build_tnc(), build_lpt() with calculate_lp(), clean_log(),              *)
(* ubifs_clear_orphans(), write_master().                                  *)
(*                                                                         *)
(* FSCK(c)->used_lebs and FSCK(c)->lpts are held in main_area: used_bit is *)
(* the LEB's bit, endpt is lpts[].end, used is lpts[].used and idx_leb is  *)
(* LPROPS_INDEX in lpts[].flags; the free and dirty space flush_write_buf()*)
(* stores for an index LEB are leb_size - endpt and endpt - used.  Every   *)
(* node takes one unit of space and min_io_size is one unit.  Which LEBs   *)
(* the scanned nodes lie in is an input of the traversal.                  *)
(***************************************************************************)
MaxRebuildLebs == 4
fanout == 3

\* What a step returns: 0, or a negative error code.
StepReturns == {0, -1}

\* The nodes this rebuild can meet.
StepNodes ==
    {RawIno(UBIFS_ROOT_INO, S_IFDIR, 2, 1), RawIno(2, S_IFREG, 1, 1),
     RawDent(UBIFS_ROOT_INO, "a", 2, 1), RawData(2, 1)}

\* A LEB no node was recorded in.
FreeLeb == [used_bit |-> FALSE, endpt |-> 0, used |-> 0, idx_leb |-> FALSE]

\* The LEBs update_lpt() can leave behind for scanned nodes.
NodeLebs ==
    {FreeLeb} \cup
    {l \in [used_bit : {TRUE}, endpt : 1..leb_size, used : 1..leb_size,
            idx_leb : {FALSE}] : l.used <= l.endpt}

\* The sum of lpts[].used over the LEBs up to i.
RECURSIVE UsedUnits(_, _)
UsedUnits(area, i) ==
    IF i = 0 THEN 0 ELSE area[i].used + UsedUnits(area, i - 1)

\* The main areas in which n indexed nodes lie.
Layouts(n) ==
    {a \in [1..MaxRebuildLebs -> NodeLebs] : UsedUnits(a, MaxRebuildLebs) = n}

\* What ubifs_rebuild_filesystem() does with the value e a step returns:
\* an error sets FSCK_ERROR and ends the rebuild.
rebuild_out_goes_on(e, next_pc) ==
    /\ err' = e
    /\ pc' = next_pc
    /\ exit_code' = exit_code

rebuild_out(e, next_pc) ==
    /\ err' = e
    /\ pc' = IF e # 0 THEN "exited" ELSE next_pc
    /\ exit_code' = IF e # 0 THEN exit_code \cup {FSCK_ERROR} ELSE exit_code

\* The variables of the run the last steps leave alone.
step_frame ==
    UNCHANGED <<run, prev, start_mode, mode, try_rebuild, lpt_status,
                disconnected, media, done, dirty, seen, fixed, skipped,
                aborted_on, libVars>>

\* init_rebuild_info(): the bitmap and the table are allocated zeroed.
init_rebuild_info(e) ==
    /\ pc = "init_rebuild_info"
    /\ rebuild_out(e, "scan_nodes")
    /\ main_area' = IF e # 0 THEN main_area
                    ELSE [i \in 1..MaxRebuildLebs |-> FreeLeb]
    /\ step_frame
    /\ UNCHANGED <<effects, lpt, lst, calc_lst, idx_cnt, gc_lnum, tnc,
                   taken>>
    /\ UNCHANGED <<buildVars, treeVars, walkVars>>

\* scan_nodes(), add_valid_nodes_into_file() or check_and_correct_files()
\* returns an error.
rebuild_step_fails(e) ==
    /\ pc \in {"scan_nodes", "add_valid_nodes_into_file",
               "calculate_file_info"}
    /\ e # 0
    /\ rebuild_out(e, pc)
    /\ step_frame
    /\ UNCHANGED <<effects, spaceVars, idx_cnt, gc_lnum, tnc, taken>>
    /\ UNCHANGED <<buildVars, treeVars, walkVars>>

\* set_bit() on FSCK(c)->used_lebs.
set_bit(area, lnum) == [area EXCEPT ![lnum].used_bit = TRUE]

\* flush_write_buf(): the head LEB is written; while the index is built its
\* properties are stored.  s holds the main area, the head and err.
flush_write_buf(s, need_update_lpt) ==
    IF s.head_offs = 0 THEN s
    ELSE [s EXCEPT !.area =
                     IF need_update_lpt
                     THEN [@ EXCEPT ![s.head_lnum] =
                             [used_bit |-> TRUE, endpt |-> s.head_offs,
                              used |-> s.head_offs, idx_leb |-> TRUE]]
                     ELSE @,
                   !.head_lnum = 0]

\* reserve_space(): len units at the head; a full or missing head LEB is
\* replaced by the one get_free_leb() finds.
reserve_space(s, len, need_update_lpt) ==
    IF s.head_lnum # 0 /\ len <= leb_size - s.head_offs
    THEN [s EXCEPT !.head_offs = @ + len]
    ELSE LET flushed == IF s.head_lnum # 0
                        THEN flush_write_buf(s, need_update_lpt) ELSE s
             new_lnum == get_free_leb(flushed.area)
         IN IF new_lnum = 0 THEN [flushed EXCEPT !.err = -1]
            ELSE [flushed EXCEPT !.area = set_bit(@, new_lnum),
                                 !.head_lnum = new_lnum,
                                 !.head_offs = len,
                                 !.taken = Append(@, [lnum |-> new_lnum,
                                                      use |-> "head"])]

\* No head LEB is open, and nothing is written or taken yet.
NoHead(area) ==
    [area |-> area, head_lnum |-> 0, head_offs |-> 0, err |-> 0,
     nodes |-> <<>>, zroot |-> 0, taken |-> <<>>]

\* The file create_root() makes from init_root_ino().
RootFile ==
    [EmptyFile EXCEPT
        !.inum = UBIFS_ROOT_INO,
        !.ino = [NoNode EXCEPT !.exist = TRUE, !.type = UBIFS_INO_KEY,
                               !.inum = UBIFS_ROOT_INO, !.sqnum = 1,
                               !.size = UBIFS_INO_NODE_SZ, !.nlink = 2,
                               !.mode = S_IFDIR],
        !.calc_nlink = 2,
        !.calc_size = UBIFS_INO_NODE_SZ]

\* A create_root() that writes the inode and inserts no file.
create_root_without_file(area) ==
    LET s == reserve_space(NoHead(area), 1, FALSE)
    IN [err |-> s.err, tree |-> <<>>, lnum |-> s.head_lnum,
        area |-> flush_write_buf(s, FALSE).area, taken |-> s.taken]

\* create_root(): the root inode is written to a new LEB and the root file
\* is inserted into the empty tree.
create_root(area) ==
    LET s == reserve_space(NoHead(area), 1, FALSE)
    IN [err |-> s.err,
        tree |-> IF s.err # 0 THEN <<>>
                 ELSE [i \in {UBIFS_ROOT_INO} |-> RootFile],
        lnum |-> s.head_lnum,
        area |-> flush_write_buf(s, FALSE).area,
        taken |-> s.taken]

\* The number of a key type in a key (ubifs-media.h).
KeyTypeNo(type) ==
    CASE type = UBIFS_INO_KEY -> 0
      [] type = UBIFS_DATA_KEY -> 1
      [] type = UBIFS_DENT_KEY -> 2
      [] type = UBIFS_XENT_KEY -> 3

\* The names of the model in the order memcmp() gives them, and the hash a
\* key holds of each.
NameOrder == ("a" :> 1) @@ ("b" :> 2)
key_hash(name) == NameOrder[name] % 2

\* An idx_entry: the key as keys_cmp() reads it (inum, type, hash or
\* block), the name of an entry, and the position of the node.
IdxEntry(inum, type, h, name) ==
    [key |-> <<inum, KeyTypeNo(type), h>>, name |-> name, lnum |-> 0,
     offs |-> 0]

\* The members of a set of files, by inum.
RECURSIVE rb_files(_)
rb_files(S) ==
    IF S = {} THEN <<>>
    ELSE LET f == CHOOSE x \in S : \A y \in S : x.inum <= y.inum
         IN <<f>> \o rb_files(S \ {f})

\* The data nodes of a file from block b on, as index entries.
RECURSIVE data_entries(_, _)
data_entries(file, S) ==
    IF S = {} THEN <<>>
    ELSE <<IdxEntry(file.inum, UBIFS_DATA_KEY, Min(S), "")>>
         \o data_entries(file, S \ {Min(S)})

\* record_file_used_lebs(): the index entries parse_node_info() adds for a
\* file: its inode node, data nodes, entries and those of its xattr files.
\* The truncation node adds none.
RECURSIVE record_file_used_lebs(_)
record_file_used_lebs(file) ==
    LET RECURSIVE xattrs(_)
        xattrs(fs) == IF fs = <<>> THEN <<>>
                      ELSE record_file_used_lebs(Head(fs)) \o xattrs(Tail(fs))
    IN <<IdxEntry(file.inum, UBIFS_INO_KEY, 0, "")>>
       \o data_entries(file, DOMAIN file.data)
       \o [k \in 1..Len(file.dent_nodes) |->
              IdxEntry(file.dent_nodes[k].key_inum, file.dent_nodes[k].type,
                       key_hash(file.dent_nodes[k].name),
                       file.dent_nodes[k].name)]
       \o xattrs(rb_files(file.xattr_files))

\* The loop of traverse_files_and_nodes() over the files from inum i on.
RECURSIVE record_used_lebs(_, _)
record_used_lebs(tree, S) ==
    IF S = {} THEN <<>>
    ELSE record_file_used_lebs(tree[Min(S)])
         \o record_used_lebs(tree, S \ {Min(S)})

\* update_lpt() for a node of len units that ends at pos in LEB lnum.
update_lpt(area, lnum, pos, len) ==
    [area EXCEPT ![lnum] = [@ EXCEPT !.used_bit = TRUE,
                                     !.endpt = Max({@, pos}),
                                     !.used = @ + len]]

\* keys_cmp(): the inum, then the type, then the hash or block.
keys_cmp(key1, key2) ==
    IF key1[1] # key2[1] THEN (IF key1[1] < key2[1] THEN -1 ELSE 1)
    ELSE IF key1[2] # key2[2] THEN (IF key1[2] < key2[2] THEN -1 ELSE 1)
    ELSE IF key1[3] # key2[3] THEN (IF key1[3] < key2[3] THEN -1 ELSE 1)
    ELSE 0

\* namecmp() on the names of two index entries; a node without a name has
\* the empty name.
namecmp(a, b) ==
    LET ra == IF a = "" THEN 0 ELSE NameOrder[a]
        rb == IF b = "" THEN 0 ELSE NameOrder[b]
    IN IF ra < rb THEN -1 ELSE IF ra > rb THEN 1 ELSE 0

\* cmp_idx(): by key, and by name for equal keys.
cmp_idx(ia, ib) ==
    IF keys_cmp(ia.key, ib.key) # 0 THEN keys_cmp(ia.key, ib.key)
    ELSE namecmp(ia.name, ib.name)

\* A list_sort() that leaves the list as it is.
list_sort_keeps_order(list) == list

\* list_sort() with cmp_idx(): a stable sort.
RECURSIVE list_sort(_)
list_sort(list) ==
    LET RECURSIVE insert(_, _)
        insert(sorted, x) ==
            IF sorted = <<>> THEN <<x>>
            ELSE IF cmp_idx(x, Head(sorted)) < 0 THEN <<x>> \o sorted
            ELSE <<Head(sorted)>> \o insert(Tail(sorted), x)
    IN IF list = <<>> THEN list
       ELSE insert(list_sort(SubSeq(list, 1, Len(list) - 1)),
                   list[Len(list)])

\* add_idx_node(): the index node with the branches to children is written
\* at the head; it is c->zroot until the next one is written, and pe is
\* its entry in the list of the level above.
add_idx_node(s, children, level) ==
    LET r == reserve_space(s, 1, TRUE)
        idx == [level |-> level, child_cnt |-> Len(children),
                branches |-> [j \in 1..Len(children) |-> children[j].key],
                lnum |-> r.head_lnum, offs |-> r.head_offs - 1]
    IN IF r.err # 0 THEN [s |-> r, pe |-> <<>>]
       ELSE [s |-> [r EXCEPT !.nodes = Append(@, idx),
                             !.zroot = <<idx.lnum, idx.offs>>],
             pe |-> <<[key |-> children[1].key, name |-> "",
                       lnum |-> idx.lnum, offs |-> idx.offs]>>]

\* The for loop of build_tnc() from its round i on: the index nodes of one
\* level over lower_idxs, whose entries are collected in upper_idxs.
RECURSIVE idx_level(_, _, _, _, _)
idx_level(s, lower_idxs, i, level, upper_idxs) ==
    LET lower_cnt == Len(lower_idxs)
        upper_cnt == (lower_cnt \div fanout)
                     + (IF lower_cnt % fanout # 0 THEN 1 ELSE 0)
        child_cnt == IF i = upper_cnt - 1
                     THEN (IF lower_cnt % fanout = 0 THEN fanout
                           ELSE lower_cnt % fanout)
                     ELSE fanout
        r == add_idx_node(s, SubSeq(lower_idxs, i * fanout + 1,
                                    i * fanout + child_cnt), level)
    IN IF i >= upper_cnt THEN [s |-> s, upper_idxs |-> upper_idxs]
       ELSE IF r.s.err # 0 THEN [s |-> r.s, upper_idxs |-> upper_idxs]
       ELSE idx_level(r.s, lower_idxs, i + 1, level, upper_idxs \o r.pe)

\* The do-while loop of build_tnc() from one level on.
RECURSIVE idx_levels(_, _, _)
idx_levels(s, lower_idxs, level) ==
    LET r == idx_level(s, lower_idxs, 0, level, <<>>)
    IN IF r.s.err # 0 THEN r.s
       ELSE IF Len(r.upper_idxs) > 1
       THEN idx_levels(r.s, r.upper_idxs, level + 1)
       ELSE r.s

\* build_tnc(): the entries are sorted, the index nodes are written level
\* by level and the last index LEB is flushed.
build_tnc(area, lower_idxs) ==
    LET s == idx_levels(NoHead(area), list_sort(lower_idxs), 0)
    IN IF s.err # 0 THEN s ELSE flush_write_buf(s, TRUE)

\* traverse_files_and_nodes(), steps 7 to 9: an empty tree gets a root, the
\* LEBs of the files' nodes are recorded and written again, and the index
\* is built.  e is what the reads, writes and allocations return.
traverse_files(e) ==
    /\ pc = "traverse_files_and_nodes"
    /\ \E root \in {create_root(main_area)} :
       \E tree \in {IF scanned_tree = <<>> THEN root.tree
                    ELSE scanned_tree} :
       \E idx_list \in {record_used_lebs(tree, DOMAIN tree)} :
       \E area \in IF scanned_tree = <<>>
                   THEN {update_lpt(root.area, root.lnum, 1, 1)}
                   ELSE Layouts(Len(idx_list)) :
       \E built \in {build_tnc(area, idx_list)} :
          IF e # 0
          THEN /\ rebuild_out(e, pc)
               /\ UNCHANGED <<scanned_tree, main_area, idx_cnt, effects,
                              tnc, taken>>
          ELSE /\ rebuild_out(built.err, "build_lpt")
               /\ scanned_tree' = tree
               /\ main_area' = built.area
               /\ idx_cnt' = Len(idx_list)
               /\ tnc' = [nodes |-> built.nodes, zroot |-> built.zroot]
               /\ taken' = (IF scanned_tree = <<>> THEN root.taken
                            ELSE <<>>) \o built.taken
               /\ effects' = effects \cup {"rebuild", "build_tnc"}
    /\ step_frame
    /\ UNCHANGED <<lpt, lst, calc_lst, gc_lnum>>
    /\ UNCHANGED <<disconnected_files, flash_nlink, flash_attrs>>
    /\ UNCHANGED <<buildVars, walkVars>>

\* calculate_lp(): the properties of a LEB as the rebuild recorded them.
\* gc tells that the LEB is c->gc_lnum.
calculate_lp(leb, gc) ==
    IF ~leb.used_bit \/ gc
    THEN [free |-> leb_size, dirty |-> 0, is_idx |-> leb.idx_leb]
    ELSE IF leb.idx_leb
    THEN [free |-> leb_size - leb.endpt, dirty |-> leb.endpt - leb.used,
          is_idx |-> TRUE]
    ELSE IF leb.endpt - leb.used = leb_size
    THEN [free |-> leb_size, dirty |-> 0, is_idx |-> FALSE]
    ELSE [free |-> leb_size - leb.endpt, dirty |-> leb.endpt - leb.used,
          is_idx |-> FALSE]

\* The loop of build_lpt() with calculate_lp() from LEB i on.
RECURSIVE calculate_lpt(_, _, _, _)
calculate_lpt(area, lnum, i, acc) ==
    IF i > Len(area) THEN acc
    ELSE LET p == calculate_lp(area[i], i = lnum)
         IN calculate_lpt(area, lnum, i + 1,
                [lpt |-> Append(acc.lpt, [free |-> p.free, dirty |-> p.dirty,
                                          index |-> p.is_idx]),
                 lst |-> add_to_lst(acc.lst, p.free, p.dirty, p.is_idx)])

\* build_lpt(c, calculate_lp, true), step 10: a free LEB is taken for the
\* garbage collector, the table is calculated and ubifs_create_lpt()
\* writes it and returns e.
build_rebuild_lpt(e) ==
    /\ pc = "build_lpt"
    /\ \E lnum \in {get_free_leb(main_area)} :
          IF lnum = 0
          THEN /\ rebuild_out(-1, pc)
               /\ lst' = ZeroStats
               /\ UNCHANGED <<main_area, lpt, gc_lnum, taken>>
          ELSE \E r \in {calculate_lpt(set_bit(main_area, lnum), lnum, 1,
                             [lpt |-> <<>>, lst |-> ZeroStats])} :
               /\ rebuild_out(e, "clean_log")
               /\ gc_lnum' = lnum
               /\ taken' = Append(taken, [lnum |-> lnum, use |-> "gc"])
               /\ main_area' = set_bit(main_area, lnum)
               /\ lpt' = r.lpt
               /\ lst' = r.lst
    /\ step_frame
    /\ UNCHANGED <<effects, calc_lst, idx_cnt, tnc>>
    /\ UNCHANGED <<buildVars, treeVars, walkVars>>

\* What clean_log(), ubifs_clear_orphans() and write_master() have in
\* common: each writes to the device and returns e.
last_step(e, next_pc) ==
    /\ rebuild_out(e, next_pc)
    /\ effects' = IF e # 0 THEN effects ELSE effects \cup {"dev_write"}
    /\ step_frame
    /\ UNCHANGED <<spaceVars, idx_cnt, gc_lnum, tnc, taken>>
    /\ UNCHANGED <<buildVars, treeVars, walkVars>>

\* clean_log() and ubifs_clear_orphans(), step 11.
clean_log(e) ==
    /\ pc = "clean_log"
    /\ last_step(e, "ubifs_clear_orphans")

ubifs_clear_orphans(e) ==
    /\ pc = "ubifs_clear_orphans"
    /\ last_step(e, "write_master")

\* write_master(), step 12.
write_master(e) ==
    /\ pc = "write_master"
    /\ last_step(e, "exited")

\* ubifs_rebuild_filesystem() has set the mode; the run had chosen
\* DANGER_MODE1 and reported what made it rebuild.
StepsInit ==
    /\ BuildStart
    /\ WalkIdle
    /\ TreeIdle
    /\ SpaceIdle
    /\ StepIdle
    /\ LibIdle
    /\ run = 1
    /\ prev = NoPrev
    /\ media = {}
    /\ start_mode = DANGER_MODE1
    /\ mode = REBUILD_MODE
    /\ pc = "init_rebuild_info"
    /\ exit_code = {FSCK_NONDESTRUCT}
    /\ try_rebuild = TRUE
    /\ lpt_status = FALSE
    /\ disconnected = FALSE
    /\ done = {}
    /\ dirty = {}
    /\ seen = {"TNC_CORRUPTED"}
    /\ fixed = {"TNC_CORRUPTED"}
    /\ skipped = {}
    /\ aborted_on = {}
    /\ effects = {"fix"}

StepsNext ==
    \/ \E e \in StepReturns : init_rebuild_info(e)
    \/ \E sn \in StepNodes : scan_nodes(sn)
    \/ scan_nodes_done
    \/ remove_del_nodes
    \/ add_valid_nodes_into_file
    \/ filter_invalid_files
    \/ extract_dentry_tree
    \/ check_and_correct_files
    \/ \E e \in StepReturns : rebuild_step_fails(e)
    \/ \E e \in StepReturns : traverse_files(e)
    \/ \E e \in StepReturns : build_rebuild_lpt(e)
    \/ \E e \in StepReturns : clean_log(e)
    \/ \E e \in StepReturns : ubifs_clear_orphans(e)
    \/ \E e \in StepReturns : write_master(e)

SpecSteps == StepsInit /\ [][StepsNext]_vars

(***************************************************************************)
(* The disconnected files (handle_disconnected.c, fsck.ubifs.c): after the *)
(* root directory is checked, do_fsck() looks for lost+found, links every  *)
(* file of FSCK(c)->disconnected_files into it, and commits.  What the     *)
(* lookups, ubifs_mkdir(), ubifs_link_recovery() and delete_file() return  *)
(* is an input; an error other than "no space" and "not found" is -1.      *)
(***************************************************************************)
\* The modes in which a file can have been moved to the list: the fix of
\* FILE_IS_DISCONNECTED must have been made.
DiscModes == {NORMAL_MODE, SAFE_MODE, DANGER_MODE0, DANGER_MODE1}

\* The disconnected files of the model: regular files without entries.
DiscFiles ==
    {VFile(i, S_IFREG, FALSE, 1, <<>>, <<>>) : i \in {2, 3, 4}}

DiscLists ==
    {<<f>> : f \in DiscFiles}
    \cup ({<<f, g>> : f, g \in DiscFiles} \ {<<f, f>> : f \in DiscFiles})

\* The inum ubifs_mkdir() gives lost+found.
LostFoundIno == 5

\* What check_and_create_lost_found() meets: the lookup of the root fails,
\* the root is encrypted, the lookup of lost+found fails, lost+found is a
\* directory, it is something else, or it is absent and ubifs_mkdir()
\* succeeds, has no space, fails, or succeeds and cannot be looked up.
LostFoundCases ==
    {"root_fails", "root_encrypted", "lookup_fails", "is_dir", "not_dir",
     "mkdir_ok", "mkdir_enospc", "mkdir_fails", "mkdir_lookup_fails"}

check_and_create_lost_found(r) ==
    /\ pc = "check_and_create_lost_found"
    /\ \E e \in {IF r \in {"root_fails", "lookup_fails", "mkdir_fails",
                          "mkdir_lookup_fails"} THEN -1 ELSE 0} :
          /\ lost_and_found' = IF r \in {"is_dir", "mkdir_ok"}
                               THEN LostFoundIno ELSE lost_and_found
          /\ pc' = IF e # 0 THEN "exited" ELSE "handle_disconnected_files"
          /\ exit_code' = IF e # 0 THEN exit_code \cup {FSCK_ERROR}
                          ELSE exit_code
          /\ disconnected_files' = IF e # 0 THEN <<>> ELSE disconnected_files
          /\ effects' = IF r \in {"mkdir_ok", "mkdir_lookup_fails"}
                        THEN effects \cup {"dev_write"} ELSE effects
    /\ UNCHANGED <<run, prev, start_mode, mode, try_rebuild, lpt_status,
                   disconnected, media, done, dirty, seen, fixed, skipped,
                   aborted_on>>
    /\ UNCHANGED <<disc_ret, handled>>
    /\ UNCHANGED <<scanned_tree, flash_nlink, flash_attrs>>
    /\ UNCHANGED <<buildVars, spaceVars, walkVars, stepVars, leafVars, ioVars>>

\* What handle_disonnected_file() meets when lost+found is there: a lookup
\* by inum fails, the lookup of a name fails, every name is taken, the
\* link is made, the link has no space, or the link fails.
LinkCases ==
    {"lookup_fails", "name_lookup_fails", "too_many_names", "linked",
     "link_enospc", "link_fails"}

\* A handle_disonnected_file() that returns the error of the link.
handle_disonnected_file_returns_enospc(m, laf, r, prompt_ans, del) ==
    IF laf # 0 /\ r \in {"lookup_fails", "name_lookup_fails", "link_fails",
                        "link_enospc"}
    THEN [why |-> r, outcome |-> "failed", err |-> -1, asked |-> FALSE,
          v |-> [ans |-> FALSE, fatal |-> FALSE, code |-> {}]]
    ELSE IF laf # 0 /\ r = "linked"
    THEN [why |-> r, outcome |-> "recovered", err |-> 0, asked |-> FALSE,
          v |-> [ans |-> FALSE, fatal |-> FALSE, code |-> {}]]
    ELSE LET q == fix_problem(m, "DISCONNECTED_FILE_CANNOT_BE_RECOVERED",
                              prompt_ans)
         IN [why |-> IF laf = 0 THEN "no_lost_found" ELSE r,
             outcome |-> IF ~q.ans THEN "left"
                         ELSE IF del # 0 THEN "failed" ELSE "deleted",
             err |-> IF q.ans THEN del ELSE 0, asked |-> TRUE, v |-> q]

\* handle_disonnected_file(): the file is linked into lost+found; without
\* lost+found, without a free name and without space for the link the
\* problem is reported and the file is deleted when the fix is made.  del
\* is what delete_file() returns.
handle_disonnected_file(m, laf, r, prompt_ans, del) ==
    IF laf # 0 /\ r \in {"lookup_fails", "name_lookup_fails", "link_fails"}
    THEN [why |-> r, outcome |-> "failed", err |-> -1, asked |-> FALSE,
          v |-> [ans |-> FALSE, fatal |-> FALSE, code |-> {}]]
    ELSE IF laf # 0 /\ r = "linked"
    THEN [why |-> r, outcome |-> "recovered", err |-> 0, asked |-> FALSE,
          v |-> [ans |-> FALSE, fatal |-> FALSE, code |-> {}]]
    ELSE LET q == fix_problem(m, "DISCONNECTED_FILE_CANNOT_BE_RECOVERED",
                              prompt_ans)
         IN [why |-> IF laf = 0 THEN "no_lost_found" ELSE r,
             outcome |-> IF ~q.ans THEN "left"
                         ELSE IF del # 0 THEN "failed" ELSE "deleted",
             err |-> IF q.ans THEN del ELSE 0, asked |-> TRUE, v |-> q]

\* One round of the loop of handle_disonnected_files().
handle_disonnected_files(r, prompt_ans, del) ==
    /\ pc = "handle_disconnected_files"
    /\ disconnected_files # <<>>
    /\ \E h \in {handle_disonnected_file(mode, lost_and_found, r,
                                         prompt_ans, del)} :
          /\ handled' = Append(handled,
                           [inum |-> Head(disconnected_files).inum,
                            why |-> h.why, outcome |-> h.outcome,
                            err |-> h.err])
          /\ disc_ret' = IF disc_ret # 0 THEN disc_ret ELSE h.err
          /\ seen' = IF h.asked
                     THEN seen \cup {"DISCONNECTED_FILE_CANNOT_BE_RECOVERED"}
                     ELSE seen
          /\ fixed' = IF h.asked /\ h.v.ans
                      THEN fixed \cup {"DISCONNECTED_FILE_CANNOT_BE_RECOVERED"}
                      ELSE fixed
          /\ skipped' = IF h.asked /\ ~h.v.ans
                        THEN skipped \cup
                                {"DISCONNECTED_FILE_CANNOT_BE_RECOVERED"}
                        ELSE skipped
          /\ exit_code' = IF h.asked THEN exit_code \cup h.v.code
                          ELSE exit_code
          /\ effects' = effects
                \cup (IF h.outcome = "recovered" THEN {"dev_write"} ELSE {})
                \cup (IF h.asked /\ h.v.ans THEN {"fix"} ELSE {})
                \cup (IF h.outcome = "deleted" THEN {"tnc_remove"} ELSE {})
    /\ disconnected_files' = Tail(disconnected_files)
    /\ UNCHANGED <<run, prev, start_mode, mode, pc, try_rebuild, lpt_status,
                   disconnected, media, done, dirty, aborted_on>>
    /\ UNCHANGED lost_and_found
    /\ UNCHANGED <<scanned_tree, flash_nlink, flash_attrs>>
    /\ UNCHANGED <<buildVars, spaceVars, walkVars, stepVars, leafVars, ioVars>>

\* The list is empty: do_fsck() ends the run on an error and goes on to the
\* final commit otherwise.
handle_disonnected_files_done ==
    /\ pc = "handle_disconnected_files"
    /\ disconnected_files = <<>>
    /\ pc' = IF disc_ret # 0 THEN "exited" ELSE "final_commit"
    /\ exit_code' = IF disc_ret # 0 THEN exit_code \cup {FSCK_ERROR}
                    ELSE exit_code
    /\ UNCHANGED <<run, prev, start_mode, mode, try_rebuild, lpt_status,
                   disconnected, media, done, dirty, seen, fixed, skipped,
                   aborted_on, effects>>
    /\ UNCHANGED <<treeVars, discVars>>
    /\ UNCHANGED <<buildVars, spaceVars, walkVars, stepVars, leafVars, ioVars>>

\* commit_fix_modifications(c, true) returns e.
final_commit(e) ==
    /\ pc = "final_commit"
    /\ pc' = "exited"
    /\ exit_code' = IF e # 0 THEN exit_code \cup {FSCK_ERROR} ELSE exit_code
    /\ effects' = IF e # 0 THEN effects ELSE effects \cup {"dev_write"}
    /\ UNCHANGED <<run, prev, start_mode, mode, try_rebuild, lpt_status,
                   disconnected, media, done, dirty, seen, fixed, skipped,
                   aborted_on>>
    /\ UNCHANGED <<treeVars, discVars>>
    /\ UNCHANGED <<buildVars, spaceVars, walkVars, stepVars, leafVars, ioVars>>

\* check_and_create_root() has returned; the earlier passes moved files to
\* the list and destroyed the tree.
DiscInit ==
    /\ BuildStart
    /\ WalkIdle
    /\ SpaceIdle
    /\ StepIdle
    /\ LibIdle
    /\ run = 1
    /\ prev = NoPrev
    /\ media = {}
    /\ start_mode \in DiscModes
    /\ mode = start_mode
    /\ pc = "check_and_create_lost_found"
    /\ exit_code = {FSCK_NONDESTRUCT}
    /\ try_rebuild = FALSE
    /\ lpt_status = FALSE
    /\ disconnected = TRUE
    /\ done = {}
    /\ dirty = {}
    /\ seen = {"FILE_IS_DISCONNECTED"}
    /\ fixed = {"FILE_IS_DISCONNECTED"}
    /\ skipped = {}
    /\ aborted_on = {}
    /\ effects = {"fix", "dev_write"}
    /\ scanned_tree = <<>>
    /\ disconnected_files \in DiscLists
    /\ flash_nlink = <<>>
    /\ flash_attrs = <<>>

DiscNext ==
    \/ \E r \in LostFoundCases : check_and_create_lost_found(r)
    \/ \E r \in LinkCases, prompt_ans \in BOOLEAN, del \in StepReturns :
          handle_disonnected_files(r, prompt_ans, del)
    \/ handle_disonnected_files_done
    \/ \E e \in StepReturns : final_commit(e)

SpecDisc == DiscInit /\ [][DiscNext]_vars

(***************************************************************************)
(* The traversal of the index (check_files.c): check_leaf() is called on   *)
(* every leaf of the index and hands the node to construct_file().         *)
(***************************************************************************)
\* What check_leaf() can meet at a leaf: a sound node, a node in a LEB that
\* scan_check_leb() finds corrupted, a node ubifs_tnc_read_node() cannot
\* read, and a node its parser rejects.
LeafFaults == {"none", "scan", "read", "parse"}

\* The nodes at the leaves: inode nodes of linked files and data nodes of
\* their first block.
LeafNodes ==
    {n \in ScannedInoNodes : n.nlink = 1}
    \cup {n \in ScannedDataNodes : n.block = 0 /\ n.size = 1}

\* The problem reported at a leaf.
LeafProblem(fault, sn) ==
    CASE fault = "scan" -> "SCAN_CORRUPTED"
      [] fault = "read" -> "TNC_DATA_CORRUPTED"
      [] fault = "parse" /\ sn.type = UBIFS_INO_KEY -> "INVALID_INO_NODE"
      [] fault = "parse" /\ sn.type = UBIFS_DATA_KEY -> "INVALID_DATA_NODE"
      [] OTHER -> "INVALID_DENT_NODE"

\* fix_problem() is not called on a sound node.
NotAsked == [ans |-> FALSE, fatal |-> FALSE, code |-> {}]

\* check_leaf() and construct_file() on one leaf.  A node that is reported
\* and fixed goes to the head of the invalid list; a node in a corrupted
\* LEB or that cannot be read is passed over when the problem is skipped; a
\* node its parser rejects goes on to insert_or_update_file() when the
\* problem is skipped, as a sound node does.
check_leaf(fault, sn, prompt_ans) ==
    /\ pc = "traverse_tnc"
    /\ Len(scanned) + Len(invalid_nodes) < MaxScanned
    /\ \E p \in {LeafProblem(fault, sn)} :
       \E r \in {IF fault = "none" THEN NotAsked
                 ELSE fix_problem(mode, p, prompt_ans)} :
       \E folds \in {/\ ~r.fatal
                     /\ \/ fault = "none"
                        \/ fault = "parse" /\ ~r.ans} :
          /\ exit_code' = exit_code \cup r.code
          /\ seen' = IF fault = "none" THEN seen ELSE seen \cup {p}
          /\ fixed' = IF r.ans THEN fixed \cup {p} ELSE fixed
          /\ skipped' = IF fault # "none" /\ ~r.ans /\ ~r.fatal
                        THEN skipped \cup {p} ELSE skipped
          /\ aborted_on' = IF r.fatal THEN aborted_on \cup {p}
                           ELSE aborted_on
          /\ effects' = IF r.ans THEN effects \cup {"fix"} ELSE effects
          /\ pc' = IF r.fatal THEN "exited" ELSE pc
          /\ invalid_nodes' = IF r.ans THEN <<sn>> \o invalid_nodes
                              ELSE invalid_nodes
          /\ scanned' = IF folds
                        THEN Append(scanned,
                                [store |-> "scanned_files", node |-> sn])
                        ELSE scanned
          /\ scanned_files' = IF folds
                              THEN insert_or_update_file(scanned_files, sn)
                              ELSE scanned_files
    /\ UNCHANGED <<run, prev, start_mode, mode, try_rebuild, lpt_status,
                   disconnected, media, done, dirty>>
    /\ UNCHANGED <<valid_inos, del_inos, valid_dents, del_dents>>
    /\ UNCHANGED <<treeVars, spaceVars, walkVars, stepVars, discVars,
                   ioVars>>

\* traverse_tnc_and_construct_files() after the last leaf:
\* remove_invalid_nodes() takes every node of the invalid list out of the
\* index.
traverse_tnc_and_construct_files ==
    /\ pc = "traverse_tnc"
    /\ pc' = "handle_invalid_files"
    /\ invalid_nodes' = <<>>
    /\ effects' = IF invalid_nodes # <<>> THEN effects \cup {"tnc_remove"}
                  ELSE effects
    /\ UNCHANGED <<run, prev, start_mode, mode, exit_code, try_rebuild,
                   lpt_status, disconnected, media, done, dirty, seen, fixed,
                   skipped, aborted_on>>
    /\ UNCHANGED <<buildVars, treeVars, spaceVars, walkVars, stepVars,
                   discVars, ioVars>>

\* The traversal starts on an empty tree of files, in any mode of the
\* command line.
LeafInit ==
    /\ BuildStart /\ TreeIdle /\ SpaceIdle /\ WalkIdle /\ StepIdle /\ LibIdle
    /\ run = 1
    /\ prev = NoPrev
    /\ media = {}
    /\ \E m \in StartModes : start_mode = m /\ mode = m
    /\ pc = "traverse_tnc"
    /\ exit_code = {}
    /\ try_rebuild = FALSE
    /\ lpt_status = FALSE
    /\ disconnected = FALSE
    /\ done = {}
    /\ dirty = {}
    /\ seen = {}
    /\ fixed = {}
    /\ skipped = {}
    /\ aborted_on = {}
    /\ effects = {}

LeafNext ==
    \/ \E fault \in LeafFaults, sn \in LeafNodes, prompt_ans \in BOOLEAN :
          check_leaf(fault, sn, prompt_ans)
    \/ traverse_tnc_and_construct_files

SpecLeaf == LeafInit /\ [][LeafNext]_vars

(***************************************************************************)
(* The commit and the device (commit.c, io.c).                             *)
(***************************************************************************)

othersThanCmt ==
    <<buildVars, runVars, treeVars, spaceVars, walkVars, stepVars, discVars,
      leafVars, wbufVars>>

\* c->libubi: ubifs_open_volume() fails unless open_ubi() has opened it.
libubi == TRUE

\* What a call on c->dev_fd can do: succeed or fail with an errno.
DevFaults == {"none", "lseek", "write", "ubi"}

\* The lengths the callers pass to ubifs_leb_write() and ubifs_leb_change().
DevLens == {0, min_io_size}

ubifs_ro_mode_keeps(ro) == ro

\* ubifs_ro_mode(): sets c->ro_error unless it is set already.
ubifs_ro_mode(ro) == IF ro = 0 THEN 1 ELSE ro

\* ubifs_leb_write(): the read-only check comes before any call on the device.
ubifs_leb_write(lnum, len, fault) ==
    /\ lib_op' = "ubifs_leb_write"
    /\ fault \in {"none", "lseek", "write"}
    /\ IF ro_error # 0
       THEN /\ lib_ret' = "EROFS"
            /\ dev_calls' = <<>>
            /\ UNCHANGED <<dev, ro_error>>
       ELSE IF ~libubi
       THEN /\ lib_ret' = "ENODEV"
            /\ dev_calls' = <<>>
            /\ ro_error' = ubifs_ro_mode(ro_error)
            /\ UNCHANGED dev
       ELSE IF len = 0
       THEN /\ lib_ret' = "0"
            /\ dev_calls' = <<>>
            /\ fault = "none"
            /\ UNCHANGED <<dev, ro_error>>
       ELSE IF fault = "lseek"
       THEN /\ lib_ret' = "EIO"
            /\ dev_calls' = <<"lseek">>
            /\ ro_error' = ubifs_ro_mode(ro_error)
            /\ UNCHANGED dev
       ELSE IF fault = "write"
       THEN /\ lib_ret' = "EIO"
            /\ dev_calls' = <<"lseek", "write">>
            /\ ro_error' = ubifs_ro_mode(ro_error)
            /\ \E d \in {dev[lnum], "torn"} :
                  dev' = [dev EXCEPT ![lnum] = d]
       ELSE /\ lib_ret' = "0"
            /\ dev_calls' = <<"lseek", "write">>
            /\ dev' = [dev EXCEPT ![lnum] = "new"]
            /\ UNCHANGED ro_error
    /\ UNCHANGED cmt_state
    /\ UNCHANGED othersThanCmt

\* ubifs_leb_change(): as ubifs_leb_write(), with ubi_leb_change_start()
\* called first on a UBI volume.
ubifs_leb_change(lnum, len, fault) ==
    /\ lib_op' = "ubifs_leb_change"
    /\ IF ro_error # 0
       THEN /\ lib_ret' = "EROFS"
            /\ dev_calls' = <<>>
            /\ fault = "none"
            /\ UNCHANGED <<dev, ro_error>>
       ELSE IF libubi /\ fault = "ubi"
       THEN /\ lib_ret' = "EIO"
            /\ dev_calls' = <<"ubi_leb_change_start">>
            /\ ro_error' = ubifs_ro_mode(ro_error)
            /\ UNCHANGED dev
       ELSE IF len = 0
       THEN /\ lib_ret' = "0"
            /\ dev_calls' = <<"ubi_leb_change_start">>
            /\ fault = "none"
            /\ dev' = [dev EXCEPT ![lnum] = "empty"]
            /\ UNCHANGED ro_error
       ELSE IF fault = "lseek"
       THEN /\ lib_ret' = "EIO"
            /\ dev_calls' = <<"ubi_leb_change_start", "lseek">>
            /\ ro_error' = ubifs_ro_mode(ro_error)
            /\ UNCHANGED dev
       ELSE IF fault = "write"
       THEN /\ lib_ret' = "EIO"
            /\ dev_calls' = <<"ubi_leb_change_start", "lseek", "write">>
            /\ ro_error' = ubifs_ro_mode(ro_error)
            /\ UNCHANGED dev
       ELSE /\ lib_ret' = "0"
            /\ dev_calls' = <<"ubi_leb_change_start", "lseek", "write">>
            /\ dev' = [dev EXCEPT ![lnum] = "new"]
            /\ UNCHANGED ro_error
    /\ UNCHANGED cmt_state
    /\ UNCHANGED othersThanCmt

\* ubifs_leb_unmap().
ubifs_leb_unmap(lnum, fault) ==
    /\ lib_op' = "ubifs_leb_unmap"
    /\ fault \in {"none", "ubi"}
    /\ IF ro_error # 0
       THEN /\ lib_ret' = "EROFS"
            /\ dev_calls' = <<>>
            /\ fault = "none"
            /\ UNCHANGED <<dev, ro_error>>
       ELSE IF ~libubi
       THEN /\ lib_ret' = "ENODEV"
            /\ dev_calls' = <<>>
            /\ UNCHANGED <<dev, ro_error>>
       ELSE IF fault = "ubi"
       THEN /\ lib_ret' = "EIO"
            /\ dev_calls' = <<"ubi_leb_unmap">>
            /\ ro_error' = ubifs_ro_mode(ro_error)
            /\ UNCHANGED dev
       ELSE /\ lib_ret' = "0"
            /\ dev_calls' = <<"ubi_leb_unmap">>
            /\ dev' = [dev EXCEPT ![lnum] = "unmapped"]
            /\ UNCHANGED ro_error
    /\ UNCHANGED cmt_state
    /\ UNCHANGED othersThanCmt

\* ubifs_leb_map().
ubifs_leb_map(lnum, fault) ==
    /\ lib_op' = "ubifs_leb_map"
    /\ fault \in {"none", "ubi"}
    /\ IF ro_error # 0
       THEN /\ lib_ret' = "EROFS"
            /\ dev_calls' = <<>>
            /\ fault = "none"
            /\ UNCHANGED <<dev, ro_error>>
       ELSE IF ~libubi
       THEN /\ lib_ret' = "ENODEV"
            /\ dev_calls' = <<>>
            /\ UNCHANGED <<dev, ro_error>>
       ELSE IF fault = "ubi"
       THEN /\ lib_ret' = "EIO"
            /\ dev_calls' = <<"ubi_leb_map">>
            /\ ro_error' = ubifs_ro_mode(ro_error)
            /\ UNCHANGED dev
       ELSE /\ lib_ret' = "0"
            /\ dev_calls' = <<"ubi_leb_map">>
            /\ dev' = [dev EXCEPT ![lnum] =
                           IF dev[lnum] = "unmapped" THEN "empty" ELSE @]
            /\ UNCHANGED ro_error
    /\ UNCHANGED cmt_state
    /\ UNCHANGED othersThanCmt

\* nothing_to_commit(): 1 unless the file system is mounting or the root of
\* the index or of the LEB properties tree is dirty.
nothing_to_commit(mounting, zroot_dirty, nroot_dirty) ==
    ~(mounting \/ zroot_dirty \/ nroot_dirty)

\* The steps of do_commit() that can fail, in order, and the LEB each one
\* writes when it succeeds (-1 for a step that writes nothing). The
\* ubifs_wbuf_sync() in front of them returns 0 on a write-buffer that is
\* empty or not seeked, which is the write-buffer of this specification.
CommitSteps ==
    << [step |-> "ubifs_gc_start_commit",    leb |-> -1],
       [step |-> "ubifs_log_start_commit",   leb |-> 1],
       [step |-> "ubifs_tnc_start_commit",   leb |-> -1],
       [step |-> "ubifs_lpt_start_commit",   leb |-> -1],
       [step |-> "ubifs_orphan_start_commit", leb |-> -1],
       [step |-> "ubifs_tnc_end_commit",     leb |-> 2],
       [step |-> "ubifs_lpt_end_commit",     leb |-> 2],
       [step |-> "ubifs_orphan_end_commit",  leb |-> 2],
       [step |-> "ubifs_log_end_commit",     leb |-> 0],
       [step |-> "ubifs_log_post_commit",    leb |-> 1],
       [step |-> "ubifs_gc_end_commit",      leb |-> -1],
       [step |-> "ubifs_lpt_post_commit",    leb |-> -1] >>

\* The LEBs written by the first n steps of do_commit().
CommitWritten(n) ==
    {CommitSteps[i].leb : i \in 1..n} \ {-1}

\* The calls on the device the first n steps of do_commit() make.
RECURSIVE CommitCalls(_)
CommitCalls(n) ==
    IF n = 0 THEN <<>>
    ELSE CommitCalls(n - 1) \o
         (IF CommitSteps[n].leb = -1 THEN <<>> ELSE <<"lseek", "write">>)

\* ubifs_run_commit() and the do_commit() it calls. failed_step is the step
\* of do_commit() that returns an error, 0 when none does.
ubifs_run_commit(mounting, zroot_dirty, nroot_dirty, failed_step) ==
    /\ lib_op' = "ubifs_run_commit"
    /\ IF cmt_state = "COMMIT_BROKEN"
       THEN /\ lib_ret' = "EROFS"
            /\ dev_calls' = <<>>
            /\ failed_step = 0
            /\ UNCHANGED <<cmt_state, ro_error, dev>>
       ELSE IF cmt_state = "COMMIT_RUNNING_REQUIRED"
       THEN /\ lib_ret' = "0"
            /\ dev_calls' = <<>>
            /\ failed_step = 0
            /\ UNCHANGED <<cmt_state, ro_error, dev>>
       ELSE IF ro_error # 0
       THEN /\ lib_ret' = "EROFS"
            /\ dev_calls' = <<>>
            /\ failed_step = 0
            /\ cmt_state' = "COMMIT_BROKEN"
            /\ ro_error' = ubifs_ro_mode(ro_error)
            /\ UNCHANGED dev
       ELSE IF nothing_to_commit(mounting, zroot_dirty, nroot_dirty)
       THEN /\ lib_ret' = "0"
            /\ dev_calls' = <<>>
            /\ failed_step = 0
            /\ cmt_state' = "COMMIT_RESTING"
            /\ UNCHANGED <<ro_error, dev>>
       ELSE IF failed_step # 0
       THEN /\ lib_ret' = "EIO"
            /\ dev_calls' = CommitCalls(failed_step - 1)
            /\ dev' = [l \in DevLebs |->
                          IF l \in CommitWritten(failed_step - 1)
                          THEN "new" ELSE dev[l]]
            /\ cmt_state' = "COMMIT_BROKEN"
            /\ ro_error' = ubifs_ro_mode(ro_error)
       ELSE /\ lib_ret' = "0"
            /\ dev_calls' = CommitCalls(Len(CommitSteps))
            /\ dev' = [l \in DevLebs |->
                          IF l \in CommitWritten(Len(CommitSteps))
                          THEN "new" ELSE dev[l]]
            /\ cmt_state' = "COMMIT_RESTING"
            /\ UNCHANGED ro_error
    /\ UNCHANGED othersThanCmt

\* ubifs_commit_required(): flags a commit; a broken commit stays broken.
ubifs_commit_required ==
    /\ lib_op' = "ubifs_commit_required"
    /\ lib_ret' = "0"
    /\ dev_calls' = <<>>
    /\ cmt_state' =
          IF cmt_state \in {"COMMIT_RESTING", "COMMIT_BACKGROUND"}
          THEN "COMMIT_REQUIRED"
          ELSE IF cmt_state = "COMMIT_RUNNING_BACKGROUND"
          THEN "COMMIT_RUNNING_REQUIRED"
          ELSE cmt_state
    /\ UNCHANGED <<ro_error, dev>>
    /\ UNCHANGED othersThanCmt

\* ubifs_gc_should_commit(): 1 when a commit is required.
ubifs_gc_should_commit ==
    /\ lib_op' = "ubifs_gc_should_commit"
    /\ cmt_state' = IF cmt_state = "COMMIT_BACKGROUND" THEN "COMMIT_REQUIRED"
                    ELSE cmt_state
    /\ lib_ret' = IF cmt_state' = "COMMIT_REQUIRED" THEN "1" ELSE "0"
    /\ dev_calls' = <<>>
    /\ UNCHANGED <<ro_error, dev>>
    /\ UNCHANGED othersThanCmt

\* The library is opened on a device, no commit has run.
CmtInit ==
    /\ BuildStart /\ RunIdle /\ TreeIdle /\ SpaceIdle /\ WalkIdle /\ StepIdle
    /\ LibIdle

CmtNext ==
    \/ \E lnum \in DevLebs, len \in DevLens, fault \in DevFaults :
          ubifs_leb_write(lnum, len, fault)
    \/ \E lnum \in DevLebs, len \in DevLens, fault \in DevFaults :
          ubifs_leb_change(lnum, len, fault)
    \/ \E lnum \in DevLebs, fault \in DevFaults : ubifs_leb_unmap(lnum, fault)
    \/ \E lnum \in DevLebs, fault \in DevFaults : ubifs_leb_map(lnum, fault)
    \/ \E mounting \in BOOLEAN, zroot_dirty \in BOOLEAN,
          nroot_dirty \in BOOLEAN, failed_step \in 0..Len(CommitSteps) :
          ubifs_run_commit(mounting, zroot_dirty, nroot_dirty, failed_step)
    \/ ubifs_commit_required
    \/ ubifs_gc_should_commit

SpecCmt == CmtInit /\ [][CmtNext]_vars

(***************************************************************************)
(* A write-buffer (io.c).                                                  *)
(***************************************************************************)

othersThanIo ==
    <<buildVars, runVars, treeVars, spaceVars, walkVars, stepVars, discVars,
      leafVars>>

\* c->leb_size of the device the write-buffer writes to: a multiple of
\* c->min_io_size, not one of c->max_write_size.
wbuf_leb_size == 56

\* The LEBs a write-buffer is seeked to, and the offsets the callers pass.
WbufLebs == {2, 3}

WbufOffs == {o \in 0..wbuf_leb_size : o % min_io_size = 0 /\ o % 8 = 0}

\* The node lengths the callers pass.
WbufLens == 1..wbuf_leb_size

seek_size_full(offs) == max_write_size

\* wbuf->size as ubifs_wbuf_seek_nolock() and ubifs_wbuf_sync_nolock() set
\* it for wbuf->offs: up to the end of the LEB, or up to the next
\* c->max_write_size boundary.
seek_size(offs) ==
    IF wbuf_leb_size - offs < max_write_size
    THEN wbuf_leb_size - offs
    ELSE IF offs % max_write_size # 0
    THEN ALIGN(offs, max_write_size) - offs
    ELSE max_write_size

\* wbuf->size as ubifs_wbuf_write_nolock() sets it for wbuf->offs.
write_size(offs) ==
    IF wbuf_leb_size - offs >= max_write_size
    THEN max_write_size
    ELSE wbuf_leb_size - offs

\* The calls k calls of ubifs_leb_write() make on the device.
RECURSIVE LebWriteCalls(_)
LebWriteCalls(k) ==
    IF k = 0 THEN <<>> ELSE LebWriteCalls(k - 1) \o <<"lseek", "write">>

\* ubifs_wbuf_seek_nolock(): the callers pass another LEB than the current
\* one and an aligned offset, on an empty write-buffer.
ubifs_wbuf_seek_nolock(lnum, offs) ==
    /\ lnum # wbuf.lnum
    /\ wbuf.used = 0
    /\ wbuf' = [lnum |-> lnum, offs |-> offs, size |-> seek_size(offs),
                avail |-> seek_size(offs), used |-> 0]
    /\ lib_op' = "ubifs_wbuf_seek_nolock"
    /\ lib_ret' = "0"
    /\ dev_calls' = <<>>
    /\ UNCHANGED <<cmt_state, ro_error, dev>>
    /\ UNCHANGED othersThanIo

\* ubifs_wbuf_sync_nolock(). failed says that its ubifs_leb_write() fails,
\* torn that it fails in write() rather than in lseek(), cb_fails that
\* wbuf->sync_callback returns an error.
ubifs_wbuf_sync_nolock(failed, torn, cb_fails) ==
    /\ lib_op' = "ubifs_wbuf_sync_nolock"
    /\ IF wbuf.used = 0 \/ wbuf.lnum = -1
       THEN /\ lib_ret' = "0"
            /\ dev_calls' = <<>>
            /\ ~failed /\ ~torn /\ ~cb_fails
            /\ UNCHANGED <<wbuf, ro_error, dev>>
       ELSE IF ro_error # 0
       THEN /\ lib_ret' = "EROFS"
            /\ dev_calls' = <<>>
            /\ ~failed /\ ~torn /\ ~cb_fails
            /\ UNCHANGED <<wbuf, ro_error, dev>>
       ELSE IF failed
       THEN /\ lib_ret' = "EIO"
            /\ dev_calls' = IF torn THEN <<"lseek", "write">> ELSE <<"lseek">>
            /\ ~cb_fails
            /\ ro_error' = ubifs_ro_mode(ro_error)
            /\ dev' = IF torn THEN [dev EXCEPT ![wbuf.lnum] = "torn"] ELSE dev
            /\ UNCHANGED wbuf
       ELSE /\ ~torn
            /\ \E sync_len \in {ALIGN(wbuf.used, min_io_size)} :
                  wbuf' = [wbuf EXCEPT
                             !.offs = wbuf.offs + sync_len,
                             !.size = seek_size(wbuf.offs + sync_len),
                             !.avail = seek_size(wbuf.offs + sync_len),
                             !.used = 0]
            /\ lib_ret' = IF cb_fails THEN "EINVAL" ELSE "0"
            /\ dev_calls' = <<"lseek", "write">>
            /\ dev' = [dev EXCEPT ![wbuf.lnum] = "new"]
            /\ UNCHANGED ro_error
    /\ UNCHANGED cmt_state
    /\ UNCHANGED othersThanIo

\* The part of ubifs_wbuf_write_nolock() behind the flush of the buffer or of
\* the unaligned head: offs1 and aligned_len1 are wbuf->offs and aligned_len
\* there, calls1 the calls of ubifs_leb_write() made so far. fail_at is the
\* call of ubifs_leb_write() that fails, 0 when none does.
wbuf_write_units(w, offs1, aligned_len1, calls1, fail_at) ==
    LET n  == aligned_len1 \div max_write_size
        m  == IF n > 0 THEN (n - 1) * max_write_size ELSE 0
        c2 == calls1 + (IF m > 0 THEN 1 ELSE 0)
        c3 == c2 + (IF n > 0 THEN 1 ELSE 0)
        offs3 == offs1 + m + (IF n > 0 THEN max_write_size ELSE 0)
        aligned_len3 == aligned_len1 - m
                        - (IF n > 0 THEN max_write_size ELSE 0)
    IN  IF m > 0 /\ fail_at = c2
        THEN [w |-> [w EXCEPT !.offs = offs1], err |-> "EIO",
              writes |-> calls1, failed |-> TRUE]
        ELSE IF n > 0 /\ fail_at = c3
        THEN [w |-> [w EXCEPT !.offs = offs1 + m], err |-> "EIO",
              writes |-> c2, failed |-> TRUE]
        ELSE [w |-> [w EXCEPT !.offs = offs3,
                              !.size = write_size(offs3),
                              !.avail = write_size(offs3) - aligned_len3,
                              !.used = aligned_len3],
              err |-> "0", writes |-> c3, failed |-> FALSE]

\* ubifs_wbuf_write_nolock() on the write-buffer w: the write-buffer it
\* leaves, what it returns before wbuf->sync_callback is called, how many
\* calls of ubifs_leb_write() succeeded and whether one failed.
wbuf_write(w, ro, len, fail_at) ==
    LET aligned_len == ALIGN(len, 8)
        same(e) == [w |-> w, err |-> e, writes |-> 0, failed |-> e = "EIO"]
    IN  IF wbuf_leb_size - w.offs - w.used < aligned_len THEN same("ENOSPC")
        ELSE IF ro # 0 THEN same("EROFS")
        ELSE IF aligned_len <= w.avail
        THEN IF aligned_len = w.avail
             THEN IF fail_at = 1 THEN same("EIO")
                  ELSE [w |-> [w EXCEPT
                                 !.offs = w.offs + w.size,
                                 !.size = write_size(w.offs + w.size),
                                 !.avail = write_size(w.offs + w.size),
                                 !.used = 0],
                        err |-> "0", writes |-> 1, failed |-> FALSE]
             ELSE [w |-> [w EXCEPT !.avail = w.avail - aligned_len,
                                   !.used = w.used + aligned_len],
                   err |-> "0", writes |-> 0, failed |-> FALSE]
        ELSE IF w.used # 0
        THEN IF fail_at = 1 THEN same("EIO")
             ELSE wbuf_write_units(w, w.offs + w.size,
                                   aligned_len - w.avail, 1, fail_at)
        ELSE IF w.offs % max_write_size # 0
        THEN IF fail_at = 1 THEN same("EIO")
             ELSE wbuf_write_units(w, w.offs + w.size,
                                   aligned_len - w.size, 1, fail_at)
        ELSE wbuf_write_units(w, w.offs, aligned_len, 0, fail_at)

\* ubifs_wbuf_write_nolock() on a seeked write-buffer. torn says that the
\* failing ubifs_leb_write() fails in write() rather than in lseek(),
\* cb_fails that wbuf->sync_callback returns an error.
ubifs_wbuf_write_nolock(len, fail_at, torn, cb_fails) ==
    /\ wbuf.lnum # -1
    /\ lib_op' = "ubifs_wbuf_write_nolock"
    /\ \E r \in {wbuf_write(wbuf, ro_error, len, fail_at)} :
          /\ fail_at # 0 => r.failed
          /\ torn => r.failed
          /\ cb_fails => r.err = "0"
          /\ wbuf' = r.w
          /\ lib_ret' = IF cb_fails THEN "EINVAL" ELSE r.err
          /\ dev_calls' =
                LebWriteCalls(r.writes) \o
                (IF ~r.failed THEN <<>>
                 ELSE IF torn THEN <<"lseek", "write">> ELSE <<"lseek">>)
          /\ dev' = IF r.failed /\ torn
                    THEN [dev EXCEPT ![wbuf.lnum] = "torn"]
                    ELSE IF r.writes > 0
                    THEN [dev EXCEPT ![wbuf.lnum] = "new"]
                    ELSE dev
          /\ ro_error' = IF r.failed THEN ubifs_ro_mode(ro_error)
                         ELSE ro_error
    /\ UNCHANGED cmt_state
    /\ UNCHANGED othersThanIo

\* The write-buffer is initialised and not seeked yet.
WbufInit ==
    /\ BuildStart /\ RunIdle /\ TreeIdle /\ SpaceIdle /\ WalkIdle /\ StepIdle
    /\ LibIdle

\* The calls of ubifs_leb_write() one ubifs_wbuf_write_nolock() can make.
MaxLebWrites == 3

WbufNext ==
    \/ \E lnum \in WbufLebs, offs \in WbufOffs :
          ubifs_wbuf_seek_nolock(lnum, offs)
    \/ \E failed \in BOOLEAN, torn \in BOOLEAN, cb_fails \in BOOLEAN :
          ubifs_wbuf_sync_nolock(failed, torn, cb_fails)
    \/ \E len \in WbufLens, fail_at \in 0..MaxLebWrites, torn \in BOOLEAN,
          cb_fails \in BOOLEAN :
          ubifs_wbuf_write_nolock(len, fail_at, torn, cb_fails)

SpecWbuf == WbufInit /\ [][WbufNext]_vars

(***************************************************************************)
(* Claim C1.                                                               *)
(***************************************************************************)
\* The record a store holds under the key of node sn (NoNode when none).
Retained(store, sn) ==
    IF store = "valid_inos"
    THEN IF sn.inum \in DOMAIN valid_inos THEN valid_inos[sn.inum] ELSE NoNode
    ELSE IF store = "del_inos"
    THEN IF sn.inum \in DOMAIN del_inos THEN del_inos[sn.inum] ELSE NoNode
    ELSE IF sn.inum \notin DOMAIN scanned_files THEN NoNode
    ELSE IF sn.type = UBIFS_INO_KEY THEN scanned_files[sn.inum].ino
    ELSE IF sn.type = UBIFS_TRUN_KEY THEN scanned_files[sn.inum].trun
    ELSE IF sn.block \in DOMAIN scanned_files[sn.inum].data
         THEN scanned_files[sn.inum].data[sn.block]
         ELSE NoNode

SameKey(e1, e2) ==
    /\ e1.store = e2.store
    /\ e1.node.type = e2.node.type
    /\ e1.node.inum = e2.node.inum
    /\ e1.node.block = e2.node.block

\* C1: among the records that arrived under one key (the inode record of an
\* object, the truncation record of an object, or one data block of a file),
\* the record the file graph retains is an arrived record of the highest
\* sequence number, whatever the order of arrival.
C1_HigherSqnumRetained ==
    \A i \in 1..Len(scanned) :
        LET e == scanned[i]
            r == Retained(e.store, e.node)
        IN /\ r.exist
           /\ r.sqnum >= e.node.sqnum
           /\ \E j \in 1..Len(scanned) :
                  SameKey(scanned[j], e) /\ scanned[j].node = r

\* Two records of one key arrived, the higher sequence number first, and the
\* first one is still the retained record.
C1_Witness ==
    \E i, j \in 1..Len(scanned) :
        /\ i < j
        /\ SameKey(scanned[i], scanned[j])
        /\ scanned[i].node.sqnum > scanned[j].node.sqnum
        /\ Retained(scanned[i].store, scanned[i].node) = scanned[i].node

(***************************************************************************)
(* Claim C2.                                                               *)
(***************************************************************************)
\* The parents the directory entries of file i lie in.
ParentsOf(tree, i) ==
    {tree[i].dent_nodes[k].key_inum : k \in 1..Len(tree[i].dent_nodes)}

\* File i reaches the root along at most n directory entries of files that
\* are in the tree.
RECURSIVE AscendsToRoot(_, _, _)
AscendsToRoot(tree, i, n) ==
    \/ i = UBIFS_ROOT_INO
    \/ /\ n > 0
       /\ \E p \in ParentsOf(tree, i) \cap DOMAIN tree :
              AscendsToRoot(tree, p, n - 1)

\* The files met when going up from file i along one to n directory entries.
RECURSIVE AncestorsOf(_, _, _)
AncestorsOf(tree, i, n) ==
    IF n = 0 THEN {}
    ELSE LET up == ParentsOf(tree, i) \cap DOMAIN tree
         IN up \cup UNION {AncestorsOf(tree, p, n - 1) : p \in up}

\* handle_invalid_files() and handle_dentry_tree() have both returned.
ConsistencyPassed == pc \in {"calculate_file_info", "tnc_is_empty"}

\* C2: after the consistency pass every file remaining in the tree has a
\* finite ascent path of directory entries to the root, and no cycle of
\* directory entries remains among the retained files: no retained file is
\* met again when going up from it.
C2_Original ==
    ConsistencyPassed =>
        \A i \in DOMAIN scanned_tree :
            /\ AscendsToRoot(scanned_tree, i, Cardinality(TreeInums))
            /\ i \notin AncestorsOf(scanned_tree, i, Cardinality(TreeInums))

\* The part of C2 the code keeps: every retained file ascends to the root.
C2_AscentOnly ==
    ConsistencyPassed =>
        \A i \in DOMAIN scanned_tree :
            AscendsToRoot(scanned_tree, i, Cardinality(TreeInums))

Reconciled == pc = "tnc_is_empty"

\* The retained directories whose directory entry lies in file i.
ChildDirs(tree, i) ==
    {j \in DOMAIN tree \ {UBIFS_ROOT_INO} :
        /\ tree[j].ino.mode = S_IFDIR
        /\ tree[j].dent_nodes # <<>>
        /\ tree[j].dent_nodes[1].key_inum = i}

\* C5 as the specification states it: after reconciliation the link count
\* of every retained file is the number of directory entries naming it,
\* plus 2 if it is a directory.
C5_Original ==
    Reconciled =>
        \A i \in DOMAIN scanned_tree :
            flash_nlink[i] =
                Len(scanned_tree[i].dent_nodes)
                + (IF scanned_tree[i].ino.mode = S_IFDIR THEN 2 ELSE 0)

\* C5 (amended): after reconciliation the link count of a retained
\* non-directory is the number of directory entries naming it; the link
\* count of the root and of every retained directory is 2 plus the number of
\* retained directories whose entry lies in it, its own entry not counted;
\* the link count of a disconnected file is 1.
C5_LinkCountRule ==
    Reconciled =>
        /\ \A i \in DOMAIN scanned_tree :
              flash_nlink[i] =
                IF i = UBIFS_ROOT_INO \/ scanned_tree[i].ino.mode = S_IFDIR
                THEN 2 + Cardinality(ChildDirs(scanned_tree, i))
                ELSE Len(scanned_tree[i].dent_nodes)
        /\ \A k \in 1..Len(disconnected_files) :
              flash_nlink[disconnected_files[k].inum] = 1

\* Reconciliation has patched a directory that holds a directory, a regular
\* file with two entries, or a disconnected file.
C5_Witness ==
    /\ Reconciled
    /\ "FILE_IS_INCONSISTENT" \in fixed
    /\ \E i \in DOMAIN scanned_tree \ {UBIFS_ROOT_INO} :
          /\ scanned_tree[i].ino.mode = S_IFDIR
          /\ ChildDirs(scanned_tree, i) # {}
          /\ flash_nlink[i] # scanned_tree[i].ino.nlink

(***************************************************************************)
(* Claim C6.                                                               *)
(***************************************************************************)
\* check_and_correct_space() has returned with the table checked or rebuilt.
SpaceAccounted == pc = "commit" /\ main_area # <<>>

\* The sum of f[1] .. f[n].
RECURSIVE SumOver(_, _)
SumOver(f, n) == IF n = 0 THEN 0 ELSE f[n] + SumOver(f, n - 1)

\* Per LEB: the free and dirty space the table holds, and the bytes of the
\* LEB the index refers to.
FreeOf == [i \in 1..Len(lpt) |-> lpt[i].free]
DirtyOf == [i \in 1..Len(lpt) |-> lpt[i].dirty]
UsedOf == [i \in 1..Len(main_area) |-> main_area[i].used]
UsedOfNonIndex ==
    [i \in 1..Len(main_area) |-> IF lpt[i].index THEN 0 ELSE main_area[i].used]

\* C6 as the specification states it: after the space-accounting pass, for
\* every LEB free + dirty + used is the LEB size, and the totals of free, of
\* dirty and of used are each the sum of the per-LEB value over all LEBs.
C6_Original ==
    SpaceAccounted =>
        /\ \A i \in 1..Len(lpt) : FreeOf[i] + DirtyOf[i] + UsedOf[i] = leb_size
        /\ lst.total_free = SumOver(FreeOf, Len(lpt))
        /\ lst.total_dirty = SumOver(DirtyOf, Len(lpt))
        /\ lst.total_used = SumOver(UsedOf, Len(main_area))

\* C6 (amended): after the space-accounting pass, for every LEB
\* free + dirty + used is the LEB size; the totals of free and of dirty are
\* the sums over all LEBs; the total of used is the sum of the used space of
\* the LEBs that are not index LEBs.
C6_SpaceTotals ==
    SpaceAccounted =>
        /\ \A i \in 1..Len(lpt) : FreeOf[i] + DirtyOf[i] + UsedOf[i] = leb_size
        /\ lst.total_free = SumOver(FreeOf, Len(lpt))
        /\ lst.total_dirty = SumOver(DirtyOf, Len(lpt))
        /\ lst.total_used = SumOver(UsedOfNonIndex, Len(main_area))

\* The pass has corrected the statistics of an area that holds an index LEB
\* and a data LEB, both with used space.
C6_Witness ==
    /\ SpaceAccounted
    /\ "SPACE_STAT_INCORRECT" \in fixed
    /\ \E i, j \in 1..Len(lpt) :
          /\ lpt[i].index /\ main_area[i].used > 0
          /\ ~lpt[j].index /\ main_area[j].used > 0

DataLossOrRebuild(p) ==
    ProblemFlags(p) \cap {PROBLEM_DROP_DATA, PROBLEM_NEED_REBUILD} # {}

\* C8 as stated: in safe mode every reported problem without the data-loss
\* and rebuild flags is fixed, and every reported problem with one of them
\* aborts the run.
C8_Original ==
    start_mode = SAFE_MODE =>
        \A p \in seen :
            IF DataLossOrRebuild(p) THEN p \in aborted_on ELSE p \in fixed

\* C8, amended: in safe mode a reported problem is fixed when it is fixable
\* and has neither the data-loss nor the rebuild flag; it aborts the run when
\* it is not fixable, or has one of the two flags and must be fixed; it is
\* skipped, and the run goes on, when it has one of the two flags and need
\* not be fixed.
C8_SafeModePolicy ==
    start_mode = SAFE_MODE =>
        \A p \in seen :
            LET flags == ProblemFlags(p) IN
            IF PROBLEM_FIXABLE \notin flags THEN p \in aborted_on
            ELSE IF ~DataLossOrRebuild(p) THEN p \in fixed
            ELSE IF PROBLEM_MUST_FIX \in flags THEN p \in aborted_on
            ELSE p \in skipped /\ p \notin aborted_on

\* A safe-mode run fixed one problem, skipped a data-loss problem that need
\* not be fixed, and went on to its end.
C8_Witness ==
    /\ start_mode = SAFE_MODE
    /\ pc = "exited"
    /\ fixed # {}
    /\ skipped # {}
    /\ aborted_on = {}

(***************************************************************************)
(* Claim C9.                                                               *)
(***************************************************************************)
IndexOrLog == {"TNC_CORRUPTED", "LOG_CORRUPTED"}

\* C9: in plain danger mode a reported unusable index or log ends the run
\* there, without a rebuild; in danger mode with rebuild the same report is
\* always followed by the mode becoming REBUILD_MODE and the rebuild
\* orchestrator having run.
C9_DangerIndexOrLog ==
    /\ [](start_mode = DANGER_MODE0 /\ seen \cap IndexOrLog # {} =>
            /\ pc = "exited"
            /\ seen \cap IndexOrLog \subseteq aborted_on
            /\ mode = DANGER_MODE0
            /\ "rebuild" \notin effects)
    /\ (start_mode = DANGER_MODE1 /\ seen \cap IndexOrLog # {})
            ~> (mode = REBUILD_MODE /\ "rebuild" \in effects)

\* A run in danger mode with rebuild reported an unusable index and has
\* executed the rebuild.
C9_Witness ==
    /\ start_mode = DANGER_MODE1
    /\ "TNC_CORRUPTED" \in seen
    /\ mode = REBUILD_MODE
    /\ "rebuild" \in effects
    /\ pc = "exited"

(***************************************************************************)
(* Claim C10.                                                              *)
(***************************************************************************)
\* C10: the mode is the start mode until it changes, it changes at most once
\* in a run and only to REBUILD_MODE, and a run started in check-only, safe
\* or plain danger mode never enters REBUILD_MODE.
C10_ModeChangesOnlyToRebuild ==
    /\ [](/\ mode \in {start_mode, REBUILD_MODE}
          /\ start_mode \in {CHECK_MODE, SAFE_MODE, DANGER_MODE0} =>
                /\ mode = start_mode
                /\ pc # "rebuild"
                /\ "rebuild" \notin effects)
    /\ [][mode' # mode =>
            \/ run' # run
            \/ mode = start_mode /\ mode' = REBUILD_MODE]_vars

\* A run that started in danger mode with rebuild is now in REBUILD_MODE.
C10_Witness ==
    /\ start_mode = DANGER_MODE1
    /\ mode = REBUILD_MODE
    /\ pc = "exited"

(***************************************************************************)
(* Claim C11.                                                              *)
(***************************************************************************)
\* C11: while the mode is REBUILD_MODE no step of the rebuild hands a problem
\* to the policy engine: what fix_problem() has seen, fixed, skipped or
\* aborted on does not change.
C11_RebuildNeverAsks ==
    [][mode = REBUILD_MODE =>
          UNCHANGED <<seen, fixed, skipped, aborted_on>>]_vars

\* filter_invalid_files() has just dropped the file that the scan made of a
\* data node: file_is_valid() found it invalid and called
\* handle_invalid_file().
C11_Witness ==
    /\ mode = REBUILD_MODE
    /\ pc = "extract_dentry_tree"
    /\ \E k \in 1..Len(scanned) : scanned[k].node = RawData(2, 1)
    /\ 2 \notin DOMAIN scanned_tree

(***************************************************************************)
(* exit_callback(): the summary lines printed when the program exits with  *)
(* the given bits in exit_code.                                            *)
(***************************************************************************)
\* A summary that reports failure only for an operational error.
exit_callback_fails_on_error_only(code) ==
    (IF FSCK_NONDESTRUCT \in code THEN {"Filesystem was modified"} ELSE {})
    \cup (IF FSCK_UNCORRECTED \in code
          THEN {"WARNING: Filesystem still has errors"} ELSE {})
    \cup (IF FSCK_ERROR \in code THEN {"FSCK failed"} ELSE {"FSCK success!"})

exit_callback(code) ==
    (IF FSCK_NONDESTRUCT \in code THEN {"Filesystem was modified"} ELSE {})
    \cup (IF FSCK_UNCORRECTED \in code
          THEN {"WARNING: Filesystem still has errors"} ELSE {})
    \cup (IF code \ {FSCK_OK, FSCK_NONDESTRUCT} # {}
          THEN {"FSCK failed"} ELSE {"FSCK success!"})

\* The outcomes a run communicates through its summary and its exit status:
\* the modified line stands for FSCK_NONDESTRUCT, the warning line for
\* FSCK_UNCORRECTED, the failure line with the status for FSCK_ERROR.
Outcomes(code) ==
    LET lines == exit_callback(code)
    IN  (IF "FSCK success!" \in lines /\ "Filesystem was modified" \notin lines
         THEN {"clean success"} ELSE {})
        \cup (IF "Filesystem was modified" \in lines
              THEN {"modified-and-clean"} ELSE {})
        \cup (IF "WARNING: Filesystem still has errors" \in lines
              THEN {"errors-remain"} ELSE {})
        \cup (IF "FSCK failed" \in lines /\ FSCK_ERROR \in code
              THEN {"operational-failure"} ELSE {})

\* C12: a run that has exited and that no termination signal has cancelled
\* communicates at least one of the four outcomes clean success, modified-and-clean, errors-remain and operational-failure;
\* clean success is communicated alone, and the summary ends with exactly one
\* of the success line and the failure line, the success line exactly when
\* neither errors-remain nor operational-failure is communicated; the
\* modified outcome can be communicated together with errors-remain or with
\* operational-failure.
C12_OutcomesOfARun ==
    (pc = "exited" /\ FSCK_CANCELED \notin exit_code) =>
        /\ Outcomes(exit_code) # {}
        /\ "clean success" \in Outcomes(exit_code)
              => Outcomes(exit_code) = {"clean success"}
        /\ ("FSCK success!" \in exit_callback(exit_code))
              # ("FSCK failed" \in exit_callback(exit_code))
        /\ ("FSCK success!" \in exit_callback(exit_code))
              <=> Outcomes(exit_code) \cap
                     {"errors-remain", "operational-failure"} = {}

\* C12 as stated: exactly one outcome is communicated by every run.
C12_Original ==
    pc = "exited" => Cardinality(Outcomes(exit_code)) = 1

C12_Witness ==
    /\ pc = "exited"
    /\ run = 1
    /\ exit_code = {FSCK_NONDESTRUCT, FSCK_UNCORRECTED}
    /\ fixed # {}
    /\ skipped # {}

\* C13: whenever a run has removed an index entry or patched an inode
\* record, the FSCK_NONDESTRUCT bit is in exit_code, so that the summary says
\* that the filesystem was modified.
C13_Original ==
    ("tnc_remove" \in effects \/ "ino_patch" \in effects) =>
        /\ FSCK_NONDESTRUCT \in exit_code
        /\ "Filesystem was modified" \in exit_callback(exit_code)

\* The inode records of an object that the scan has met.
ObservedInos(inum) ==
    {scanned[k].node : k \in {j \in 1..Len(scanned) :
        /\ scanned[j].node.type = UBIFS_INO_KEY
        /\ scanned[j].node.inum = inum}}

\* A record that creates the object is followed by one with link count zero
\* and a higher sequence number.
UnlinkedAfterCreation(inum) ==
    \E cr, del \in ObservedInos(inum) :
        cr.nlink > 0 /\ del.nlink = 0 /\ del.sqnum > cr.sqnum

\* The same, and no record with a positive link count is newer than the
\* newest record with link count zero.
UnlinkedLast(inum) ==
    /\ UnlinkedAfterCreation(inum)
    /\ \A n \in ObservedInos(inum) :
          n.nlink > 0 => \E del \in ObservedInos(inum) :
                            del.nlink = 0 /\ del.sqnum > n.sqnum

\* The files the rebuilt index is made of.
RebuiltIndex ==
    IF pc \in {"traverse_files_and_nodes", "exited"}
    THEN DOMAIN scanned_tree ELSE {}

\* C14: when the raw scan has met an inode-creation record of an object and
\* a same-key record with link count zero and a higher sequence number, and
\* no same-key record with a positive link count and a still higher sequence
\* number, the object is not in the rebuilt index.
C14_UnlinkedObjectExcluded ==
    \A inum \in 1..2 : UnlinkedLast(inum) => inum \notin RebuiltIndex

\* C14 as stated: a zero-link record newer than the creation record excludes
\* the object.
C14_Original ==
    \A inum \in 1..2 : UnlinkedAfterCreation(inum) => inum \notin RebuiltIndex

C14_Witness ==
    /\ pc = "exited"
    /\ UnlinkedLast(2)
    /\ \E k \in 1..Len(scanned) :
          scanned[k].node = RawDent(UBIFS_ROOT_INO, "a", 2, 1)
    /\ \E k \in 1..Len(scanned) : scanned[k].node = RawData(2, 1)
    /\ UBIFS_ROOT_INO \in DOMAIN scanned_tree
    /\ 2 \notin DOMAIN scanned_tree

\* A regular file whose only directory entry was deleted: the inode and the
\* data are there, no entry is.
Tombstoned(file) ==
    /\ file.inum # UBIFS_ROOT_INO
    /\ file.ino.exist
    /\ file.ino.nlink > 0
    /\ S_ISREG(file.ino.mode)
    /\ ~file.ino.is_xattr
    /\ file.dent_nodes = <<>>
    /\ file.data # <<>>

\* The validation pass of either path comes to its end.
ValidationPassEnds ==
    /\ pc \in {"handle_invalid_files", "filter_invalid_files"}
    /\ pc' \notin {pc, "exited"}

\* The file is on the disconnected list with the inode and the data it had
\* in the tree.
InDisconnectedSet(file, list) ==
    \E k \in 1..Len(list) :
        /\ list[k].inum = file.inum
        /\ list[k].ino = file.ino
        /\ list[k].data = file.data

\* C15: when the consistency pass of a check run comes to its end (the
\* policy engine has answered every report with fix), a regular file with
\* inode and data and no directory entry is in the disconnected set, with
\* its inode and data, and is no longer in the tree; on the rebuild path,
\* which passes no pointer for the disconnected flag, the file is dropped
\* and the disconnected set stays empty.
C15_TombstonedFileAfterValidation ==
    [][ValidationPassEnds =>
          \A i \in DOMAIN scanned_tree :
              Tombstoned(scanned_tree[i]) =>
                  /\ i \notin DOMAIN scanned_tree'
                  /\ IF mode = REBUILD_MODE
                     THEN disconnected_files' = <<>>
                     ELSE InDisconnectedSet(scanned_tree[i],
                                            disconnected_files')]_vars

\* C15 as stated: after the pass the file is in the disconnected set.
C15_Original ==
    [][ValidationPassEnds =>
          \A i \in DOMAIN scanned_tree :
              Tombstoned(scanned_tree[i]) =>
                  InDisconnectedSet(scanned_tree[i], disconnected_files')]_vars

C15_Witness ==
    /\ mode = SAFE_MODE
    /\ pc = "handle_dentry_tree"
    /\ 3 \notin DOMAIN scanned_tree
    /\ \E k \in 1..Len(disconnected_files) :
          /\ disconnected_files[k].inum = 3
          /\ Tombstoned(disconnected_files[k])
    /\ "FILE_IS_DISCONNECTED" \in fixed

\* handle_invalid_files() has acted on a file that is no extended attribute:
\* the file was deleted or moved to the disconnected list, or entries or
\* data nodes of it were discarded.
ValidationActed ==
    \E i \in DOMAIN scanned_tree :
        /\ ~scanned_tree[i].ino.is_xattr
        /\ \/ i \notin DOMAIN scanned_tree'
           \/ /\ i \in DOMAIN scanned_tree'
              /\ \/ Len(scanned_tree'[i].dent_nodes)
                       < Len(scanned_tree[i].dent_nodes)
                 \/ scanned_tree'[i].data # scanned_tree[i].data

\* C16: outside rebuild mode, when handle_invalid_files() discards an entry
\* or a data node, deletes a file or marks it disconnected, fix_problem() was
\* invoked for a named problem in the same pass.
C16_Original ==
    [][(mode # REBUILD_MODE /\ pc = "handle_invalid_files"
            /\ ValidationActed) => seen' # seen]_vars

\* C17: the inode record and the truncation record a file holds change only
\* to a record with a strictly higher sequence number; a record of the key
\* with an equal or lower sequence number leaves the held record as it is.
C17_Original ==
    [][\A i \in DOMAIN scanned_files :
          /\ i \in DOMAIN scanned_files'
          /\ (scanned_files[i].ino.exist
                 /\ scanned_files'[i].ino # scanned_files[i].ino)
                => scanned_files'[i].ino.sqnum > scanned_files[i].ino.sqnum
          /\ (scanned_files[i].trun.exist
                 /\ scanned_files'[i].trun # scanned_files[i].trun)
                => scanned_files'[i].trun.sqnum
                       > scanned_files[i].trun.sqnum]_vars

\* C18: after handle_invalid_files(), handle_dentry_tree() and
\* check_and_correct_files(), every file of the tree that is neither the root
\* nor an extended attribute file has only directory entries whose parent is
\* a directory of the tree.
C18_Original ==
    pc = "tnc_is_empty" =>
        \A i \in DOMAIN scanned_tree :
            (i # UBIFS_ROOT_INO /\ ~scanned_tree[i].ino.is_xattr) =>
                \A p \in ParentsOf(scanned_tree, i) :
                    /\ p \in DOMAIN scanned_tree
                    /\ S_ISDIR(scanned_tree[p].ino.mode)

\* The validation pass of either path has come to its end.
Validated ==
    /\ pc \notin {"handle_invalid_files", "filter_invalid_files"}
    /\ aborted_on = {}

\* The files that are retained on their own: those of the tree and those of
\* the disconnected list.
RetainedFiles ==
    {scanned_tree[i] : i \in DOMAIN scanned_tree}
    \cup SeqToSet(disconnected_files)

\* C19: after validation every retained extended attribute file is in the
\* xattr_files of a host that is itself no extended attribute file, and hosts
\* no extended attribute file of its own.
C19_NoXattrOfXattr ==
    Validated =>
        \A f \in RetainedFiles :
            /\ ~f.ino.is_xattr
            /\ \A x \in f.xattr_files :
                  x.ino.is_xattr /\ x.xattr_files = {}

C19_Witness ==
    /\ Validated
    /\ mode = DANGER_MODE0
    /\ "XATTR_HAS_WRONG_HOST" \in fixed
    /\ \E f \in RetainedFiles : \E x \in f.xattr_files : x.inum = 3
    /\ 4 \notin DOMAIN scanned_tree

\* Every file that is retained: the files of the tree and of the disconnected
\* list, and the extended attribute files attached to them.
AllFiles(tree, list) ==
    LET top == {tree[i] : i \in DOMAIN tree} \cup SeqToSet(list)
    IN  top \cup UNION {f.xattr_files : f \in top}

\* The entries of the file whose key type and entry type agree with the
\* inode.
ConsistentDents(file) ==
    SelectSeq(file.dent_nodes,
        LAMBDA d : /\ (d.type = UBIFS_XENT_KEY) = file.ino.is_xattr
                   /\ d.dtype = ubifs_get_dent_type(file.ino.mode))

\* The retained file g has at most one entry, and that one has the highest
\* sequence number of the given entries.
KeepsNewestOf(g, dents) ==
    /\ Len(g.dent_nodes) <= 1
    /\ Len(g.dent_nodes) = 1 =>
          /\ \E k \in 1..Len(dents) :
                g.dent_nodes[1].sqnum = dents[k].sqnum
          /\ \A k \in 1..Len(dents) :
                dents[k].sqnum <= g.dent_nodes[1].sqnum

Unreachable(tree) ==
    {i \in DOMAIN tree : ~AscendsToRoot(tree, i, Cardinality(DOMAIN tree))}

InList(i, list) == \E k \in 1..Len(list) : list[k].inum = i

\* handle_dentry_tree() runs and returns.
CheckReachabilityPassEnds ==
    pc = "handle_dentry_tree" /\ pc' = "calculate_file_info"

\* extract_dentry_tree() runs and returns.
RebuildReachabilityPassEnds ==
    pc = "extract_dentry_tree" /\ pc' = "calculate_file_info"

WalkEnded == pc \in {"move_unreachable", "exited"}

\* dentry_is_reachable() is called on an entry its own ascent has already
\* passed: the chain of first entries has come back to it.
NameTwiceOnPath ==
    /\ pc = "dentry_is_reachable"
    /\ \E k \in 1..Len(walk_path) : walk_path[k] = walk_dent

\* No entry is on the path twice.
PathHasNoRepeat ==
    \A k, l \in 1..Len(walk_path) : walk_path[k] = walk_path[l] => k = l

\* C22: the reachability walk comes to its end on every tree, cyclic ones
\* included: no entry is ever put on the ascent path twice, and a call on an
\* entry that is already on the path returns at once with the verdict
\* 'unreachable', so that the path is removed.
C22_WalkTerminates ==
    /\ <>WalkEnded
    /\ []PathHasNoRepeat
    /\ [][NameTwiceOnPath =>
             /\ pc' = "remove_path"
             /\ walk_path' = walk_path
             /\ scanned_tree' = scanned_tree]_vars

\* A walk has met a cycle of directories, has removed the entries of the
\* cycle, and the first loop has ended with the files of the cycle on the
\* list of the unreachable ones.
C22_Witness ==
    /\ pc = "move_unreachable"
    /\ mode = DANGER_MODE0
    /\ DOMAIN scanned_tree = TreeInums
    /\ SeqToSet(walk_unreachable) = {2, 3}
    /\ scanned_tree[2].ino.mode = S_IFDIR
    /\ scanned_tree[3].ino.mode = S_IFDIR
    /\ "DENTRY_IS_UNREACHABLE" \in fixed
(***************************************************************************)
(* Claim C23.                                                              *)
(***************************************************************************)
\* check_and_correct_files() has returned, in the check or in the rebuild.
InfoReconciled == pc \in {"tnc_is_empty", "traverse_files_and_nodes"}

\* The extended attribute files of the files of the tree.
XattrFilesOf(tree) == UNION {tree[i].xattr_files : i \in DOMAIN tree}

\* C23: the recomputed link count of a directory (the root included) is 2
\* plus the number of surviving directories whose entry lies in it; that of
\* any other file is the number of surviving entries naming it; that of a
\* file in the disconnected set is 1.
C23_CanonicalLinkCount ==
    InfoReconciled =>
        /\ \A i \in DOMAIN scanned_tree :
              scanned_tree[i].calc_nlink =
                IF S_ISDIR(scanned_tree[i].ino.mode)
                THEN 2 + Cardinality(ChildDirs(scanned_tree, i))
                ELSE Len(scanned_tree[i].dent_nodes)
        /\ \A x \in XattrFilesOf(scanned_tree) :
              x.calc_nlink = Len(x.dent_nodes)
        /\ \A k \in 1..Len(disconnected_files) :
              disconnected_files[k].calc_nlink = 1

\* A check has reconciled a root that holds directory 2 and a file 3 with
\* two entries whose recorded link count was 1.
C23_Witness ==
    /\ pc = "tnc_is_empty"
    /\ DOMAIN scanned_tree = {UBIFS_ROOT_INO, 2, 3}
    /\ scanned_tree[UBIFS_ROOT_INO].calc_nlink = 3
    /\ scanned_tree[2].calc_nlink = 2
    /\ Len(scanned_tree[3].dent_nodes) = 2
    /\ scanned_tree[3].ino.nlink = 1
    /\ flash_nlink[3] = 2
    /\ "FILE_IS_INCONSISTENT" \in fixed
(***************************************************************************)
(* Claim C24.                                                              *)
(***************************************************************************)
\* A truncation written after the data node d cuts the file before the end
\* of d: the truncation node, or the inode node that records the size of
\* the truncated file, has a higher sequence number than d and a size below
\* the end of d.
LaterTruncation(file, d) ==
    \/ /\ file.trun.exist
       /\ file.trun.sqnum > d.sqnum
       /\ file.trun.size < DataEnd(d)
    \/ /\ file.ino.sqnum > d.sqnum
       /\ file.ino.size < DataEnd(d)

\* What size reconciliation does to the data nodes of one regular file:
\* before is the file as check_and_correct_files() finds it, after the file
\* as it leaves it.
DataReconciled(before, after) ==
    \A b \in DOMAIN before.data :
        /\ b \notin DOMAIN after.data
              <=> LaterTruncation(before, before.data[b])
        /\ b \in DOMAIN after.data =>
              /\ after.data[b] = before.data[b]
              /\ after.calc_size >= DataEnd(before.data[b])

ReconcileStep ==
    /\ pc = "calculate_file_info"
    /\ pc' \in {"tnc_is_empty", "traverse_files_and_nodes"}

\* C24: size reconciliation drops a data node exactly when a truncation
\* with a higher sequence number than the node invalidates it; every other
\* data node is kept, and the reconciled size covers it.
C24_DropOnlyTruncated ==
    [][ReconcileStep =>
          /\ \A i \in DOMAIN scanned_tree :
                S_ISREG(scanned_tree[i].ino.mode) =>
                    /\ i \in DOMAIN scanned_tree'
                    /\ DataReconciled(scanned_tree[i], scanned_tree'[i])
          /\ \A k \in 1..Len(disconnected_files) :
                DataReconciled(disconnected_files[k],
                               disconnected_files'[k])]_vars

\* A check has dropped the data node of block 0, which is older than the
\* truncation to size 0, has kept the data node of block 1, which is
\* newer, and has extended the size from 1 to the end of block 1.
C24_Witness ==
    /\ pc = "tnc_is_empty"
    /\ "tnc_remove" \in effects
    /\ 3 \in DOMAIN scanned_tree
    /\ scanned_tree[3].trun.exist
    /\ scanned_tree[3].trun.sqnum = 3
    /\ scanned_tree[3].trun.size = 0
    /\ DOMAIN scanned_tree[3].data = {1}
    /\ scanned_tree[3].data[1].sqnum = 3
    /\ scanned_tree[3].ino.size = 1
    /\ scanned_tree[3].calc_size = UBIFS_BLOCK_SIZE + 1
    /\ flash_attrs[3].size = UBIFS_BLOCK_SIZE + 1
(***************************************************************************)
(* Claim C25.                                                              *)
(***************************************************************************)
\* The inode of the file records a size beyond the end of its data.
SizeExceedsData(file) ==
    /\ file.data # <<>>
    /\ file.ino.size > MaxDataEnd(file.data)

\* Reconciliation has kept data of the file and has given the file the end
\* of that data for its size, which is less than the inode recorded.
ShrunkToData(before, after) ==
    /\ after.data # <<>>
    /\ after.calc_size < before.ino.size
    /\ after.calc_size = MaxDataEnd(after.data)

\* A truncation node written after the inode cuts the file before the end
\* of the data that reconciliation has kept.
TruncatedBehindInode(before, after) ==
    /\ before.trun.exist
    /\ before.trun.sqnum > before.ino.sqnum
    /\ before.trun.size < MaxDataEnd(after.data)

DirEntriesSize(tree, i) ==
    SumOfPairs({<<p, CALC_DENT_SIZE(tree[p[1]].dent_nodes[p[2]].nlen)>> :
                  p \in EntriesIn(tree, i)})

\* C26 as the specification states it: after the check the size in the
\* inode of every directory is the sum of the encodings of its surviving
\* entries.
C26_Original ==
    Reconciled =>
        \A i \in DOMAIN scanned_tree :
            S_ISDIR(scanned_tree[i].ino.mode) =>
                flash_attrs[i].size = DirEntriesSize(scanned_tree, i)

\* C26 (amended): after the check the size in the inode of every directory
\* is the size of an inode node plus the sum of the encodings of its
\* surviving entries.
C26_DirectorySize ==
    Reconciled =>
        \A i \in DOMAIN scanned_tree :
            S_ISDIR(scanned_tree[i].ino.mode) =>
                flash_attrs[i].size =
                    UBIFS_INO_NODE_SZ + DirEntriesSize(scanned_tree, i)

\* A check has patched the size of a root that recorded 0 and holds the
\* directory 2 and an entry of file 3 with the longest name.
C26_Witness ==
    /\ Reconciled
    /\ DOMAIN scanned_tree = {UBIFS_ROOT_INO, 2, 3}
    /\ scanned_tree[UBIFS_ROOT_INO].ino.size = 0
    /\ EntriesIn(scanned_tree, 2) = {}
    /\ flash_attrs[2].size = UBIFS_INO_NODE_SZ
    /\ flash_attrs[UBIFS_ROOT_INO].size =
          UBIFS_INO_NODE_SZ + CALC_DENT_SIZE(1) + CALC_DENT_SIZE(MaxNlen)
    /\ "FILE_IS_INCONSISTENT" \in fixed
(***************************************************************************)
(* Claim C27.                                                              *)
(***************************************************************************)
\* The files of a tree and their extended attribute files.
FilesAndXattrs(tree) == {tree[i] : i \in DOMAIN tree} \cup XattrFilesOf(tree)

\* The tree with the canonical values calculated.
CanonTree == calculate_files(scanned_tree, DOMAIN scanned_tree)

\* A canonical value of the file disagrees with the inode the file holds.
Disagrees(file) ==
    \/ file.calc_nlink # file.ino.nlink
    \/ file.calc_size # file.ino.size
    \/ file.calc_xcnt # file.ino.xcnt
    \/ file.calc_xsz # file.ino.xsz
    \/ file.calc_xnms # file.ino.xnms

\* The step has rewritten the inode node of file inum on the device.
Patched(inum) ==
    \/ flash_nlink'[inum] # flash_nlink[inum]
    \/ flash_attrs'[inum] # flash_attrs[inum]

\* The step has written the canonical values of the file to the device.
PatchedTo(file) ==
    /\ Patched(file.inum)
    /\ flash_nlink'[file.inum] = file.calc_nlink
    /\ flash_attrs'[file.inum] =
          [size |-> file.calc_size, xcnt |-> file.calc_xcnt,
           xsz |-> file.calc_xsz, xnms |-> file.calc_xnms]

\* check_and_correct_files() runs, to its end or to fatal_error().
CorrectStep == pc = "calculate_file_info" /\ pc' # pc

\* C27 as the specification states it: an inode is patched exactly when a
\* canonical value disagrees with it, and whenever an inode is patched the
\* problem "file is inconsistent" is reported.
C27_Original ==
    [][CorrectStep =>
          /\ \A f \in FilesAndXattrs(CanonTree) :
                Patched(f.inum) <=> Disagrees(f)
          /\ (\E f \in FilesAndXattrs(CanonTree) : Patched(f.inum))
                => "FILE_IS_INCONSISTENT" \in seen']_vars

\* C27 (amended): when the check repairs, an inode is patched, to the
\* canonical values, exactly when a canonical value disagrees with it, and
\* the patch is reported as "file is inconsistent"; when the fix is not
\* made, the disagreement is reported, nothing is patched and the run ends;
\* the rebuild patches by the same rule and reports nothing.
C27_PatchIffDisagrees ==
    [][CorrectStep =>
          IF pc' = "exited"
          THEN /\ \E f \in FilesAndXattrs(CanonTree) : Disagrees(f)
               /\ "FILE_IS_INCONSISTENT" \in seen' \ fixed'
               /\ flash_nlink' = flash_nlink
               /\ flash_attrs' = flash_attrs
          ELSE /\ \A f \in FilesAndXattrs(scanned_tree')
                           \cup SeqToSet(disconnected_files') :
                     IF Disagrees(f) THEN PatchedTo(f)
                     ELSE ~Patched(f.inum)
               /\ IF mode = REBUILD_MODE THEN seen' = seen
                  ELSE (\E f \in FilesAndXattrs(scanned_tree')
                                 \cup SeqToSet(disconnected_files') :
                            Patched(f.inum))
                       => "FILE_IS_INCONSISTENT" \in fixed']_vars

\* A repairing check has patched file 3, whose inode held the canonical
\* link count and size and extended attribute sums of zero, to the sums of
\* its one extended attribute file, and has left the inode of that file as
\* it was.
C27_Witness ==
    /\ pc = "tnc_is_empty"
    /\ mode = DANGER_MODE0
    /\ 3 \in DOMAIN scanned_tree
    /\ Cardinality(scanned_tree[3].xattr_files) = 1
    /\ scanned_tree[3].ino.nlink = scanned_tree[3].calc_nlink
    /\ scanned_tree[3].ino.size = scanned_tree[3].calc_size
    /\ scanned_tree[3].ino.xcnt = 0
    /\ flash_nlink[3] = scanned_tree[3].ino.nlink
    /\ flash_attrs[3] =
          [size |-> scanned_tree[3].ino.size, xcnt |-> 1,
           xsz |-> CALC_DENT_SIZE(1) + CALC_XATTR_BYTES(0), xnms |-> 1]
    /\ flash_nlink[4] = 1
    /\ flash_attrs[4] = [size |-> 0, xcnt |-> 0, xsz |-> 0, xnms |-> 0]
    /\ "FILE_IS_INCONSISTENT" \in fixed
(***************************************************************************)
(* Claim C28.                                                              *)
(***************************************************************************)
\* C28: a failure at any step of the rebuild stops the rebuild and the run
\* ends with the operational-error status set: the step that returns an
\* error leaves the rebuild at its exit with FSCK_ERROR in the exit code,
\* and no step is taken once a step has returned an error.
C28_FailureEndsRebuild ==
    [][/\ err = 0
       /\ err' # 0 => (pc' = "exited" /\ FSCK_ERROR \in exit_code')]_vars

\* The rebuild failed after build_lpt() had taken the LEB for the garbage
\* collector: in ubifs_create_lpt() or in one of the steps behind it.
C28_Witness ==
    /\ pc = "exited"
    /\ err # 0
    /\ gc_lnum # 0
    /\ FSCK_ERROR \in exit_code
(***************************************************************************)
(* Claim C29.                                                              *)
(***************************************************************************)
\* A tree that holds a minimal root directory and nothing else: a
\* directory with the two links of an empty directory, no entry, no data
\* and no extended attribute.
OnlyMinimalRoot(tree) ==
    /\ DOMAIN tree = {UBIFS_ROOT_INO}
    /\ tree[UBIFS_ROOT_INO].inum = UBIFS_ROOT_INO
    /\ tree[UBIFS_ROOT_INO].ino.exist
    /\ tree[UBIFS_ROOT_INO].ino.mode = S_IFDIR
    /\ tree[UBIFS_ROOT_INO].ino.nlink = 2
    /\ tree[UBIFS_ROOT_INO].dent_nodes = <<>>
    /\ tree[UBIFS_ROOT_INO].data = <<>>
    /\ tree[UBIFS_ROOT_INO].xattr_files = {}

\* C29: in rebuild, if no files survive filtering, a minimal root directory
\* is synthesized, so the rebuilt filesystem always contains a root and
\* index construction never starts from an empty set of leaf nodes: the
\* traversal that finds the tree empty and gets as far as build_tnc() leaves
\* the minimal root in the tree, and whenever build_tnc() is called the
\* tree holds the root and at least one leaf entry is handed over.
C29_RootSynthesized ==
    [][/\ (/\ pc = "traverse_files_and_nodes"
           /\ scanned_tree = <<>>
           /\ "build_tnc" \in effects') => OnlyMinimalRoot(scanned_tree')
       /\ "build_tnc" \in effects' =>
             /\ idx_cnt' >= 1
             /\ UBIFS_ROOT_INO \in DOMAIN scanned_tree']_vars

\* A rebuild that scanned nodes, none of them a root inode, has completed
\* with the synthesized root as its only file.
C29_Witness ==
    /\ pc = "exited"
    /\ err = 0
    /\ scanned # <<>>
    /\ \A k \in 1..Len(scanned) :
          scanned[k].node.inum # UBIFS_ROOT_INO
    /\ OnlyMinimalRoot(scanned_tree)
    /\ idx_cnt = 1
(***************************************************************************)
(* Claim C30.                                                              *)
(***************************************************************************)
\* build_lpt() has returned without an error in a rebuild.
LptBuilt ==
    /\ mode = REBUILD_MODE
    /\ err = 0
    /\ pc \in {"clean_log", "ubifs_clear_orphans", "write_master", "exited"}

\* C30: before any rebuild completes, exactly one unit is reserved for
\* reclamation work: from the end of build_lpt() on, and so in every rebuild
\* that completes, c->gc_lnum names one LEB of the main area, no surviving
\* node and no index node was recorded in that LEB, and the table holds it
\* as entirely free.
C30_GcLebReserved ==
    LptBuilt =>
        /\ gc_lnum \in 1..Len(main_area)
        /\ main_area[gc_lnum].used_bit
        /\ main_area[gc_lnum].endpt = 0
        /\ main_area[gc_lnum].used = 0
        /\ ~main_area[gc_lnum].idx_leb
        /\ lpt[gc_lnum] = [free |-> leb_size, dirty |-> 0, index |-> FALSE]

\* A rebuild has completed with two files, their nodes spread over two LEBs
\* that are not empty, and a LEB behind them taken for the garbage collector.
C30_Witness ==
    /\ LptBuilt
    /\ pc = "exited"
    /\ Cardinality(DOMAIN scanned_tree) = 2
    /\ gc_lnum = MaxRebuildLebs
    /\ \E i \in 1..(gc_lnum - 1) :
          /\ ~main_area[i].idx_leb
          /\ main_area[i].used > 0
          /\ lpt[i].free < leb_size
(***************************************************************************)
(* Claim C31.                                                              *)
(***************************************************************************)
\* build_tnc() has returned without an error.
TncBuilt ==
    /\ mode = REBUILD_MODE
    /\ err = 0
    /\ pc \in {"build_lpt", "clean_log", "ubifs_clear_orphans",
               "write_master", "exited"}

\* The positions in tnc.nodes of the index nodes of a level, in the order
\* they were written.
LevelNodes(level) ==
    SelectSeq([k \in 1..Len(tnc.nodes) |-> k],
              LAMBDA k : tnc.nodes[k].level = level)

\* The keys of the branches of a level, node after node.
RECURSIVE LevelKeys(_)
LevelKeys(ks) ==
    IF ks = <<>> THEN <<>>
    ELSE tnc.nodes[Head(ks)].branches \o LevelKeys(Tail(ks))

TopLevel == Max({tnc.nodes[k].level : k \in 1..Len(tnc.nodes)})

\* C31: the index a rebuild has built is built bottom-up from the sorted
\* leaf entries: every index node has between 1 and fanout children, every
\* node of a level except the last has exactly fanout, the keys of a level
\* are in sorted order within and across its nodes, the branches of level
\* 0 are the leaf entries and those of a higher level are the first keys of
\* the nodes below, and there is exactly one node on the top level, which
\* is the last index node written and is c->zroot.
C31_IndexBottomUp ==
    TncBuilt =>
        /\ tnc.nodes # <<>>
        /\ \A k \in 1..Len(tnc.nodes) :
              /\ tnc.nodes[k].child_cnt \in 1..fanout
              /\ tnc.nodes[k].child_cnt = Len(tnc.nodes[k].branches)
              /\ k > 1 => tnc.nodes[k - 1].level <= tnc.nodes[k].level
        /\ \A level \in 0..TopLevel :
              LET ks == LevelNodes(level)
                  keys == LevelKeys(ks)
              IN /\ ks # <<>>
                 /\ \A j \in 1..(Len(ks) - 1) :
                       tnc.nodes[ks[j]].child_cnt = fanout
                 /\ \A j \in 1..(Len(keys) - 1) :
                       keys_cmp(keys[j], keys[j + 1]) <= 0
                 /\ IF level = 0
                    THEN /\ Len(keys) = idx_cnt
                         /\ {keys[j] : j \in 1..Len(keys)} =
                            {x.key : x \in SeqToSet(record_used_lebs(
                                          scanned_tree, DOMAIN scanned_tree))}
                    ELSE keys = [j \in 1..Len(LevelNodes(level - 1)) |->
                                   tnc.nodes[LevelNodes(level - 1)[j]]
                                       .branches[1]]
        /\ Len(LevelNodes(TopLevel)) = 1
        /\ tnc.nodes[Len(tnc.nodes)].level = TopLevel
        /\ tnc.zroot = <<tnc.nodes[Len(tnc.nodes)].lnum,
                         tnc.nodes[Len(tnc.nodes)].offs>>

\* An index of two levels is built from four leaf entries that the
\* traversal collected in another order than that of their keys: two index
\* nodes on level 0, the first with fanout children, and the root above.
C31_Witness ==
    /\ TncBuilt
    /\ idx_cnt = 4
    /\ Len(tnc.nodes) = 3
    /\ TopLevel = 1
    /\ tnc.nodes[1].child_cnt = fanout
    /\ tnc.nodes[2].child_cnt = 1
    /\ record_used_lebs(scanned_tree, DOMAIN scanned_tree)
         # list_sort(record_used_lebs(scanned_tree, DOMAIN scanned_tree))
(***************************************************************************)
(* Claim C32.                                                              *)
(***************************************************************************)
\* The directory entry records the scan has met.
ObservedDents ==
    {scanned[k].node : k \in {j \in 1..Len(scanned) :
        scanned[j].node.type \in {UBIFS_DENT_KEY, UBIFS_XENT_KEY}}}

\* Those whose target object number is 0.
ObservedTombstones == {d \in ObservedDents : d.inum = 0}

\* remove_del_nodes() has run.
TombstonesRemoved ==
    pc \in {"add_valid_nodes_into_file", "filter_invalid_files",
            "extract_dentry_tree", "calculate_file_info",
            "traverse_files_and_nodes", "exited"}

\* The entries that are left after remove_del_nodes(): those of
\* si->valid_dents, and from add_valid_nodes_into_file() on those of the
\* files.
SurvivingDents ==
    IF pc = "add_valid_nodes_into_file"
    THEN {valid_dents[k] : k \in DOMAIN valid_dents}
    ELSE UNION {SeqToSet(f.dent_nodes) : f \in FilesAndXattrs(scanned_tree)}

\* C32 as stated: after the scan and the removal no surviving entry has the
\* key and name of an observed tombstone.
C32_Original ==
    TombstonesRemoved =>
        \A d \in SurvivingDents : \A t \in ObservedTombstones :
            DentKey(d) # DentKey(t)

\* C32: an entry record whose target object number is 0 removes the
\* surviving record with the same key and name and a lower sequence
\* number: after the scan and the removal no surviving entry has the key
\* and name of an observed tombstone whose sequence number is higher than
\* the entry's, and every surviving entry names an object.
C32_TombstoneRemovesOlder ==
    TombstonesRemoved =>
        /\ del_dents = <<>>
        /\ \A d \in SurvivingDents :
              /\ d.inum # 0
              /\ \A t \in ObservedTombstones :
                     DentKey(d) = DentKey(t) => t.sqnum <= d.sqnum

\* The scan met an entry and then its tombstone, and the removal has left
\* no entry of that key and name.
C32_Witness ==
    /\ pc = "add_valid_nodes_into_file"
    /\ \E d \in ObservedDents : \E t \in ObservedTombstones :
          /\ d.inum # 0
          /\ DentKey(d) = DentKey(t)
          /\ d.sqnum < t.sqnum
          /\ DentKey(t) \notin DOMAIN valid_dents
(***************************************************************************)
(* Claim C33.                                                              *)
(***************************************************************************)
\* handle_disonnected_files() handles a file in this step.
HandlesFile ==
    /\ pc = "handle_disconnected_files"
    /\ Len(handled') = Len(handled) + 1

\* C33 as stated: a file whose link into lost+found finds no free space is
\* deleted, and the run goes on.
C33_Original ==
    [][(HandlesFile /\ handled'[Len(handled')].why = "link_enospc") =>
          /\ handled'[Len(handled')].outcome = "deleted"
          /\ handled'[Len(handled')].err = 0
          /\ pc' = "handle_disconnected_files"]_vars

\* C33: when a disconnected file cannot be relocated because there is no
\* free space (for the link, or for lost+found itself), the lack of space
\* does not abort the run: the problem "disconnected file cannot be
\* recovered" is reported, the file is deleted when the fix is made, which
\* it always is in the danger modes and never in safe mode, and otherwise
\* it is left as it is with FSCK_UNCORRECTED set; the loop goes on with the
\* next file, and only a deletion that fails makes the pass return an
\* error.
C33_NoSpaceDeletesOnFix ==
    [][(HandlesFile /\ handled'[Len(handled')].why
                           \in {"link_enospc", "no_lost_found"}) =>
          LET h == handled'[Len(handled')]
          IN /\ "DISCONNECTED_FILE_CANNOT_BE_RECOVERED" \in seen'
             /\ h.outcome \in {"deleted", "left", "failed"}
             /\ mode \in {DANGER_MODE0, DANGER_MODE1} => h.outcome # "left"
             /\ mode = SAFE_MODE => h.outcome = "left"
             /\ h.outcome = "deleted" =>
                   /\ "tnc_remove" \in effects'
                   /\ FSCK_NONDESTRUCT \in exit_code'
             /\ h.outcome = "left" =>
                   /\ FSCK_UNCORRECTED \in exit_code'
                   /\ effects' = effects
             /\ h.err # 0 <=> h.outcome = "failed"
             /\ disc_ret' # disc_ret => h.outcome = "failed"
             /\ pc' = "handle_disconnected_files"
             /\ disconnected_files' = Tail(disconnected_files)
             /\ FSCK_ERROR \in exit_code' => FSCK_ERROR \in exit_code]_vars

\* The link of the first file found no space and the file was deleted; the
\* second file was linked into lost+found and the run ended without an
\* error.
C33_Witness ==
    /\ pc = "exited"
    /\ Len(handled) = 2
    /\ handled[1].why = "link_enospc"
    /\ handled[1].outcome = "deleted"
    /\ handled[2].outcome = "recovered"
    /\ FSCK_ERROR \notin exit_code
(***************************************************************************)
(* Claim C34.                                                              *)
(***************************************************************************)
\* C34: while the run is under way the handler of the termination signals
\* can run at every point, and the step in which FSCK_CANCELED is set is the
\* exit of the process: the status is the status so far with FSCK_CANCELED
\* added, nothing is written to the device and no pending change is
\* committed in that step, and a status with FSCK_CANCELED is only ever
\* seen on a process that has exited.
C34_SignalCancels ==
    [][/\ pc \notin {"idle", "exited"} => ENABLED signal_cancel
       /\ FSCK_CANCELED \in exit_code => pc = "exited"
       /\ (FSCK_CANCELED \in exit_code' /\ FSCK_CANCELED \notin exit_code) =>
             /\ pc' = "exited"
             /\ exit_code' = exit_code \cup {FSCK_CANCELED}
             /\ "FSCK failed" \in exit_callback(exit_code')
             /\ effects' = effects
             /\ media' = media
             /\ dirty' = dirty]_vars

\* A run is cancelled after it made a fix that it has not committed: the
\* device still holds the fault, and the status carries FSCK_CANCELED
\* together with the status of the fix.
C34_Witness ==
    /\ pc = "exited"
    /\ run = 1
    /\ exit_code = {FSCK_NONDESTRUCT, FSCK_CANCELED}
    /\ dirty # {}
    /\ dirty \subseteq media
(***************************************************************************)
(* Claim C35.                                                              *)
(***************************************************************************)
\* C35: a step of the reachability walk in which delete_node() fails ends
\* the run with FSCK_ERROR in the exit status, and the file the walk is on
\* is not taken for a reachable one: the walk does not go on to the next
\* file.
C35_Original ==
    [][\A k \in 1..Len(walk_path) :
          remove_unreachable_path(k) =>
              /\ pc' = "exited"
              /\ FSCK_ERROR \in exit_code']_vars
(***************************************************************************)
(* Claim C36.                                                              *)
(***************************************************************************)
MustFix == {p \in Problems : PROBLEM_MUST_FIX \in ProblemFlags(p)}

\* fix_problem() on a problem that must be fixed, in every mode and for every
\* answer of the user: the answer is yes or the process is ended.
FixOrTerminate ==
    \A p \in MustFix, m \in StartModes, a \in BOOLEAN :
        fix_problem(m, p, a).ans \/ fix_problem(m, p, a).fatal

\* C36: for a problem whose flags hold PROBLEM_MUST_FIX, fix_problem()
\* answers yes or fatal_error() ends the process, in every mode and for
\* every answer of the user; no such problem is ever skipped by a run; and
\* the step of check_leaf() on a node its parser rejects leaves the tree of
\* files as it was: the node goes to the invalid list or the run has
\* exited.
C36_MustFixNeverSkipped ==
    [][/\ FixOrTerminate
       /\ skipped' \cap MustFix = {}
       /\ \A sn \in LeafNodes, a \in BOOLEAN :
             check_leaf("parse", sn, a) =>
                /\ scanned_files' = scanned_files
                /\ scanned' = scanned
                /\ \/ pc' = "exited" /\ invalid_nodes' = invalid_nodes
                   \/ pc' = pc /\ invalid_nodes' = <<sn>> \o invalid_nodes]_vars

\* The user has said yes to the removal of a rejected inode node, which is
\* on the invalid list, after a sound node was put into the tree of files.
C36_Witness ==
    /\ pc = "traverse_tnc"
    /\ mode = NORMAL_MODE
    /\ Len(invalid_nodes) = 1
    /\ invalid_nodes[1].type = UBIFS_INO_KEY
    /\ fixed = {"INVALID_INO_NODE"}
    /\ Len(scanned) = 1
    /\ scanned_files # <<>>
(***************************************************************************)
(* Claim C37.                                                              *)
(***************************************************************************)
\* The LEBs in which update_lpt() recorded a node of a file of the tree.
DataLebs ==
    {i \in 1..Len(main_area) :
        /\ main_area[i].used_bit
        /\ ~main_area[i].idx_leb
        /\ main_area[i].used > 0}

\* The units recorded in the LEBs of S.
RECURSIVE RecordedUnits(_)
RecordedUnits(S) ==
    IF S = {} THEN 0
    ELSE main_area[Min(S)].used + RecordedUnits(S \ {Min(S)})

\* create_root() took the first LEB for the inode of the root it made, and
\* build_tnc() the next one.
RootLebTaken ==
    /\ Len(taken) > 1
    /\ taken[2].use = "head"
    /\ idx_cnt = 1
    /\ main_area[taken[1].lnum].used = 1
    /\ main_area[taken[1].lnum].endpt = 1

\* C37: once the rebuild has built the index, get_free_leb() has returned
\* no LEB twice; every node of the files of the tree is still recorded in a
\* LEB that holds no index node; a LEB reserve_space() took and unmapped
\* holds index nodes only, or is the one the inode of the root the rebuild
\* made was written to after it was taken; and the LEB taken for the
\* garbage collector is c->gc_lnum and holds no node.
C37_SurvivingLebsKept ==
    TncBuilt =>
        /\ \A j, k \in 1..Len(taken) :
              j # k => taken[j].lnum # taken[k].lnum
        /\ RecordedUnits(DataLebs) = idx_cnt
        /\ \A k \in 1..Len(taken) :
              taken[k].use = "head" =>
                 \/ main_area[taken[k].lnum].idx_leb
                 \/ k = 1 /\ RootLebTaken
        /\ \A k \in 1..Len(taken) :
              taken[k].use = "gc" =>
                 /\ taken[k].lnum = gc_lnum
                 /\ taken[k].lnum \notin DataLebs
                 /\ ~main_area[taken[k].lnum].idx_leb

\* A rebuild has completed with the nodes of its files in the first two
\* LEBs: the index went to the third and the fourth is the garbage
\* collector's.
C37_Witness ==
    /\ TncBuilt
    /\ pc = "exited"
    /\ DataLebs = {1, 2}
    /\ taken = <<[lnum |-> 3, use |-> "head"], [lnum |-> 4, use |-> "gc"]>>
(***************************************************************************)
(* Claim C38.                                                              *)
(***************************************************************************)
\* The steps of do_fsck() that allocate new space: the root directory is
\* made in the first, lost+found is made and the disconnected files are
\* linked into it in the second.
AllocSteps == {"check_and_create_root", "handle_disconnected_files"}

\* C38: a run comes to the check of the index size only from the commit
\* behind the space check, in a mode that is not CHECK_MODE, with every
\* correction of the passes before it taken to the device and none left
\* pending, and to a step that allocates space only from there; a commit
\* that fails sets FSCK_ERROR and is the last step of the run, so that no
\* step that allocates space is entered with FSCK_ERROR set.
C38_CommitBeforeAllocation ==
    [][/\ (pc' = "check_index_size" /\ pc # pc') =>
             /\ pc = "commit"
             /\ mode # CHECK_MODE
             /\ dirty' = {}
             /\ media' = media \ dirty
             /\ dirty # {} => "dev_write" \in effects'
             /\ FSCK_ERROR \notin exit_code'
       /\ (pc' \in AllocSteps /\ pc # pc') =>
             pc \in {"check_index_size"} \cup AllocSteps
       /\ (pc \in {"commit", "final_commit"}
             /\ FSCK_ERROR \in exit_code' /\ FSCK_ERROR \notin exit_code) =>
             /\ pc' = "exited"
             /\ media' = media
       /\ pc' \in AllocSteps => FSCK_ERROR \notin exit_code']_vars

\* A run that fixed a fault in an earlier pass has committed the fix and
\* has then made the root directory.
C38_Witness ==
    /\ run = 1
    /\ pc = "check_and_create_root"
    /\ "ROOT_DIR_NOT_FOUND" \in fixed
    /\ Cardinality(fixed) > 1
    /\ dirty # {}
    /\ \E f \in dirty : f.type = "ROOT_DIR_NOT_FOUND"
    /\ \A f \in media : f.site \in AllocSteps

\* Claim C39: once a commit has failed, c->cmt_state stays COMMIT_BROKEN and
\* c->ro_error stays set; every later ubifs_run_commit(), ubifs_leb_write(),
\* ubifs_leb_change(), ubifs_leb_unmap() and ubifs_leb_map() returns -EROFS,
\* makes no call on the device and leaves the device as it was; c->ro_error,
\* once set, is never cleared.
C39_BrokenStaysReadOnly ==
    [][/\ ro_error # 0 => ro_error' # 0
       /\ cmt_state = "COMMIT_BROKEN" =>
             /\ cmt_state' = "COMMIT_BROKEN"
             /\ ro_error' # 0
             /\ dev' = dev
             /\ dev_calls' = <<>>
             /\ lib_op' \in {"ubifs_run_commit", "ubifs_leb_write",
                             "ubifs_leb_change", "ubifs_leb_unmap",
                             "ubifs_leb_map"} => lib_ret' = "EROFS"]_vars

\* A commit failed after it had written the log, and a write asked for
\* after it was refused.
C39_Witness ==
    /\ cmt_state = "COMMIT_BROKEN"
    /\ ro_error = 1
    /\ dev[1] = "new"
    /\ dev[0] = "old"
    /\ lib_op = "ubifs_leb_write"
    /\ lib_ret = "EROFS"
    /\ dev_calls = <<>>

\* Claim C40: after ubifs_wbuf_seek_nolock(), ubifs_wbuf_write_nolock() and
\* ubifs_wbuf_sync_nolock() on a write-buffer that is seeked to a LEB,
\* wbuf->used + wbuf->avail is wbuf->size, wbuf->offs + wbuf->size is at
\* most c->leb_size, and wbuf->used is a multiple of 8.
C40_WbufInvariants ==
    (/\ lib_op \in {"ubifs_wbuf_seek_nolock", "ubifs_wbuf_write_nolock",
                     "ubifs_wbuf_sync_nolock"}
     /\ wbuf.lnum # -1) =>
        /\ wbuf.used + wbuf.avail = wbuf.size
        /\ wbuf.offs + wbuf.size <= wbuf_leb_size
        /\ wbuf.used % 8 = 0

\* A node that did not fit was written: the buffer was flushed, whole units
\* went to the device and the rest sits in a buffer at the end of the LEB.
C40_Witness ==
    /\ lib_op = "ubifs_wbuf_write_nolock"
    /\ lib_ret = "0"
    /\ Len(dev_calls) > 2
    /\ wbuf.lnum # -1
    /\ wbuf.used > 0
    /\ wbuf.size < max_write_size
    /\ wbuf.offs + wbuf.size = wbuf_leb_size
=============================================================================
